---- MODULE Spec2Model ----
\* Model of the Echo-System orchestrator: the node registry
\* (orchestrator/registry.go), the unary failover router
\* (orchestrator/main.go) and the node-agent's registration / heartbeat
\* loop (node-agent/main.go).
EXTENDS Integers, Sequences, FiniteSets, TLC

\* ---------------------------------------------------------------------
\* Program constants
\* ---------------------------------------------------------------------
HeartbeatTimeout == 15000   \* registry.go:151  isAlive: now - LastHeartbeat < 15_000
EvictInterval    == 5000    \* registry.go:134  time.NewTicker(5 * time.Second)
BusyThreshold    == 5       \* registry.go:97   ActiveTasks >= 5
SendCap          == 64      \* websocket.go:119 send: make(chan []byte, 64)

StatusIdle       == "idle"
StatusBusy       == "busy"
StatusOverloaded == "overloaded"
StatusOffline    == "offline"

TaskTypeText      == "text"
TaskTypeCode      == "code"
TaskTypeSummarize == "summarize"
TaskTypeAny       == ""

\* ---------------------------------------------------------------------
\* Bounds of the model
\* ---------------------------------------------------------------------
MaxTime == 15000            \* the clock stops advancing here
MaxActive == 2              \* largest ActiveTasks of a row in the inputs of findBest
MaxSteps == 2               \* longest pipeline
MaxLines == 3               \* most lines an agent writes to one stream
MaxEvents == 2              \* most Broadcast calls of one behaviour
MaxWrites == 4              \* most messages writePump writes to one connection
MaxUnregisters == 2         \* most calls of hub.unregister for one connection
MaxMutations == 3           \* most Registry mutations of one behaviour with a snapshot
MaxRestarts == 2            \* most restarts of the orchestrator
MaxParts == 3               \* most pieces a template given to resolveTemplate is made of

Ids    == {"node-a", "node-b"}            \* the agents of the mesh
AllIds == {"node-a", "node-b", "node-c"}  \* the agents in the inputs of findBest
Tasks  == {"t1"}
Handlers == {"h1"}                        \* the request handlers calling the registry in SpecRegistry

NoNode == "none"

\* The task types and model hints findBest is called with.
TaskTypes == {TaskTypeText, TaskTypeCode, TaskTypeAny}
Hints     == {"", "mistral", "codellama", "nonexistent-model-xyz"}

\* The configurations a node-agent can be started with (-models, -capabilities).
ProfileA ==
  [Models |-> <<"mistral">>,
   Capabilities |-> << [Name |-> "mistral", Types |-> {TaskTypeText, TaskTypeSummarize}] >>]

ProfileB ==
  [Models |-> <<"codellama", "mistral">>,
   Capabilities |-> << [Name |-> "codellama", Types |-> {TaskTypeCode}],
                       [Name |-> "mistral",   Types |-> {TaskTypeText}] >>]

Profiles(id) == IF id = "node-a" THEN {ProfileA} ELSE {ProfileB}

ProfileOf(id) == CHOOSE p \in Profiles(id) : TRUE

\* The task requests clients submit (the ones of the test scripts).
Requests ==
  { [Type |-> TaskTypeCode, ModelHint |-> ""],
    [Type |-> TaskTypeText, ModelHint |-> "codellama"],
    [Type |-> TaskTypeAny,  ModelHint |-> "nonexistent-model-xyz"] }

NoReq == [Type |-> TaskTypeAny, ModelHint |-> ""]

\* The active-task counts an agent reports in a heartbeat.
ReportCounts == {0, BusyThreshold - 1, BusyThreshold}

\* ---------------------------------------------------------------------
\* State
\* ---------------------------------------------------------------------
VARIABLES
  nodes,        \* Registry.nodes: node_id -> NodeInfo (a map: only registered ids)
  now,          \* time.Now().UnixMilli()
  tickPending,  \* the eviction ticker has fired and evictLoop has not run yet
  pc,           \* per task: position in handleTask / routeWithFailover
  req,          \* per task: the TaskRequest
  tried,        \* per task: the tried map of routeWithFailover
  cur,          \* per task: node of the innermost routeWithFailover frame
  held,         \* per task: nodes with a pending deferred DecrementLoad (innermost last)
  ctxDone,      \* per task: the request context is cancelled / timed out
  result,       \* per task: the TaskResult / error of routeWithFailover
  failed,       \* per task (history): nodes whose forward returned an error
  suspected,    \* per task (history): nodes MarkSuspect was called for
  answer,       \* per task (history): what the agent answered to the last forward
  loadDelta,    \* per task (history): sum of the changes its own load calls made to ActiveTasks
  touched,      \* (history): nodes that got a heartbeat or were registered again
  fbCall,       \* (history): the last direct call of findBest and what it returned
  lastOp,       \* (history): the last call of a Registry method and its arguments
  pending,      \* per handler: the node its deferred DecrementLoad is pending for
  plPc,         \* handlePipeline: "idle", "step" (a step is being routed) or "done"
  plReq,        \* handlePipeline: the decoded PipelineRequest
  plID,         \* ExecutePipeline: req.PipelineID after the default was applied
  results,      \* ExecutePipeline: results
  prevOutput,   \* ExecutePipeline: prevOutput
  taskReqs,     \* (history): the TaskRequests ExecutePipeline handed to routeWithFailover
  plResult,     \* the PipelineResult ExecutePipeline returned
  plStatus,     \* the HTTP status handlePipeline answered with (0: none yet)
  events,       \* the MeshEvents given to hub.Broadcast so far
  stPc,         \* handleTaskStream: "idle", "inc", "connect", "stream", "release" or "done"
  stReq,        \* handleTaskStream: the TaskRequest
  stNode,       \* handleTaskStream: node
  stWritten,    \* the lines the agent has written to the response body of /execute/stream
  stRead,       \* forwardTaskStream: how many of these lines scanner.Scan has returned
  delivered,    \* the chunks written to the client as SSE events
  stStatus,     \* the HTTP status handleTaskStream answered with (0: none yet)
  stExit,       \* (history): why handleTaskStream returned
  stHist,       \* (history): the nodes selected and dispatched to, the load calls made
  clients,      \* EventHub.clients: the registered dashboard clients
  send,         \* per client: the content of its send channel
  wsPc,         \* per client: "none", "registered", "replay", "running" or "closed"
  replay,       \* per client: the messages sendInitialState has still to enqueue
  sent,         \* per client: the messages writePump has written to the connection
  bcast,        \* the Broadcast call in progress: its event and the clients still to visit
  nEvents,      \* number of Broadcast calls made so far
  known,        \* per client (history): the list AllNodes returned to sendInitialState
  atStart,      \* per client (history): the send channel when the pumps were started
  mu,           \* Registry.mu: whether a writer holds it, how many readers hold it
  wrPc,         \* the Registry method that holds the write lock and how far it has got
  snPc,         \* AllNodes: "idle", "waiting" (for the read lock), "copying" or "returned"
  snLeft,       \* AllNodes: the rows the loop has still to copy
  snList,       \* AllNodes: list
  snapshot,     \* the list AllNodes returned
  committed,    \* (history): the registry after each completed mutation, oldest first
  snFrom,       \* (history): how many mutations had completed when AllNodes was called
  httpLog,      \* (history): the requests POSTed to /task and /register with the status answered
  agPc,         \* per agent: "register" (in registerWithRetry) or "beat" (in heartbeatLoop)
  orchUp,       \* the orchestrator process is running and reachable
  restarts,     \* how often the orchestrator has been restarted
  hbCode,       \* per agent (history): the outcome of its last heartbeat, whether one was a 404
  tmplIn,       \* the arguments resolveTemplate is called with
  tmplOuts,     \* what the successive calls of resolveTemplate returned
  agentCfg,     \* per agent: the Config it was started with (AgentHost, AgentPort)
  agentPort,    \* Registry.nodes: node_id -> NodeInfo.AgentPort
  fwdLog,       \* (history): the forwards made: for which node, to which URL, who executed
  ldPc,         \* per concurrent request: "idle", "select", "inc", "forward" or "unwind"
  ldCur,        \* per concurrent request: the node selected last
  ldHeld,       \* per concurrent request: the nodes with a pending deferred DecrementLoad
  ldTried,      \* per concurrent request: the tried map of routeWithFailover
  ldOld,        \* per concurrent request (history): the positions of ldHeld incremented before the node registered again
  hcPc,         \* per dashboard connection: "none", "registered", "running" or "terminated" (readPump's loop has ended)
  hcClients,    \* EventHub.clients while broadcasters run concurrently
  hcSend,       \* per dashboard connection: the messages buffered in wsClient.send
  hcReplay,     \* per dashboard connection: the messages sendInitialState has still to enqueue
  hcSent,       \* per dashboard connection: the messages writePump has written to the socket
  hcClosed,     \* per dashboard connection (history): how often close(client.send) ran
  hcCalls,      \* per dashboard connection (history): how often hub.unregister was called
  hcOnClosed,   \* (history): the connections a send statement ran on after their channel was closed
  hcB,          \* per broadcaster: where its Broadcast call is and the clients its loop has still to visit
  plCancelAt    \* (history): << >>, or <<n>> when the pipeline's context was done after n steps had finished

regVars == <<lastOp, pending>>

pipeVars == <<plPc, plReq, plID, results, prevOutput, taskReqs, plResult, plStatus, events>>

streamVars == <<stPc, stReq, stNode, stWritten, stRead, delivered, stStatus, stExit, stHist>>

hubVars == <<clients, send, wsPc, replay, sent, bcast, nEvents, known, atStart>>

snapVars == <<mu, wrPc, snPc, snLeft, snList, snapshot, committed, snFrom>>

valVars == <<httpLog>>

agentVars == <<agPc, orchUp, restarts, hbCode>>

tmplVars == <<tmplIn, tmplOuts>>

fwdVars == <<agentCfg, agentPort, fwdLog>>

cancelVars == <<plCancelAt>>

loadVars == <<ldPc, ldCur, ldHeld, ldTried, ldOld>>

concVars == <<hcPc, hcClients, hcSend, hcReplay, hcSent, hcClosed, hcCalls, hcOnClosed, hcB>>

lateVars == <<fwdVars, cancelVars, loadVars, concVars>>

extVars == <<hubVars, snapVars, valVars, agentVars, tmplVars, lateVars>>

auxVars == <<regVars, pipeVars, streamVars, extVars>>

vars == <<nodes, now, tickPending, pc, req, tried, cur, held, ctxDone, result,
          failed, suspected, answer, loadDelta, touched, fbCall, auxVars>>

taskVars == <<pc, req, tried, cur, held, ctxDone, result, failed, suspected, answer>>

\* ---------------------------------------------------------------------
\* shared/types.go
\* ---------------------------------------------------------------------
Min(S) == CHOOSE x \in S : \A y \in S : x <= y

BestModelForType(caps, t) ==
  IF t = TaskTypeAny
    THEN IF Len(caps) > 0 THEN caps[1].Name ELSE ""
    ELSE LET hits == {i \in 1..Len(caps) : t \in caps[i].Types}
         IN  IF hits = {} THEN "" ELSE caps[Min(hits)].Name

CanHandle(caps, t) == BestModelForType(caps, t) # ""

\* ---------------------------------------------------------------------
\* orchestrator/registry.go
\* ---------------------------------------------------------------------
containsModel(models, target) == \E i \in 1..Len(models) : models[i] = target

isAlive(node, t) == t - node.LastHeartbeat < HeartbeatTimeout

\* Variant of isCandidate that trusts the status and skips the liveness test.
isCandidateStatusOnly(node, id, exclude, t) ==
  /\ id \notin exclude
  /\ ~(node.Status = StatusOverloaded \/ node.Status = StatusOffline)

isCandidate(node, id, exclude, t) ==
  /\ id \notin exclude
  /\ isAlive(node, t)
  /\ ~(node.Status = StatusOverloaded \/ node.Status = StatusOffline)

\* Variant of pickBetter that keeps the first candidate seen.
pickBetterFirst(reg, current, candidate) ==
  IF current = NoNode THEN candidate ELSE current

\* pickBetter over node ids; NoNode is the nil pointer.
pickBetter(reg, current, candidate) ==
  IF current = NoNode \/ reg[candidate].ActiveTasks < reg[current].ActiveTasks
    THEN candidate
    ELSE current

\* The loop of findBest over the map, in the iteration order `order`
\* (Go randomises map iteration): the three tier winners after the loop.
RECURSIVE findBestLoop(_, _, _, _, _, _, _)
findBestLoop(reg, t, order, taskType, modelHint, exclude, acc) ==
  IF order = <<>> THEN acc
  ELSE LET id   == Head(order)
           node == reg[id]
           nxt  ==
             IF ~isCandidate(node, id, exclude, t) THEN acc
             ELSE IF modelHint # "" /\ containsModel(node.Models, modelHint)
               THEN [acc EXCEPT !.tier1 = pickBetter(reg, acc.tier1, id)]
             ELSE IF taskType # TaskTypeAny /\ CanHandle(node.Capabilities, taskType)
               THEN [acc EXCEPT !.tier2 = pickBetter(reg, acc.tier2, id)]
             ELSE [acc EXCEPT !.tier3 = pickBetter(reg, acc.tier3, id)]
       IN  findBestLoop(reg, t, Tail(order), taskType, modelHint, exclude, nxt)

findBest(reg, t, order, taskType, modelHint, exclude) ==
  LET acc == findBestLoop(reg, t, order, taskType, modelHint, exclude,
                          [tier1 |-> NoNode, tier2 |-> NoNode, tier3 |-> NoNode])
  IN  IF acc.tier1 # NoNode THEN acc.tier1
      ELSE IF acc.tier2 # NoNode THEN acc.tier2
      ELSE IF acc.tier3 # NoNode THEN acc.tier3
      ELSE NoNode

\* The iteration orders of a map with key set S.
Orders(S) ==
  {s \in [1..Cardinality(S) -> S] : \A i, j \in 1..Cardinality(S) : i # j => s[i] # s[j]}

RegisterRow(p, t) ==
  [Models        |-> p.Models,
   Capabilities  |-> p.Capabilities,
   Status        |-> StatusIdle,
   ActiveTasks   |-> 0,
   LastHeartbeat |-> t]

HeartbeatRow(node, status, count, t) ==
  [node EXCEPT !.LastHeartbeat = t, !.Status = status, !.ActiveTasks = count]

\* Variant of IncrementLoad that sets busy only above the threshold.
IncrementLoadRowAbove(node) ==
  LET n == node.ActiveTasks + 1
  IN  [node EXCEPT !.ActiveTasks = n,
                   !.Status = IF n > BusyThreshold THEN StatusBusy ELSE @]

IncrementLoadRow(node) ==
  LET n == node.ActiveTasks + 1
  IN  [node EXCEPT !.ActiveTasks = n,
                   !.Status = IF n >= BusyThreshold THEN StatusBusy ELSE @]

\* Variant of DecrementLoad without the test for a positive count.
DecrementLoadRowUnguarded(node) ==
  LET n == node.ActiveTasks - 1
  IN  [node EXCEPT !.ActiveTasks = n,
                   !.Status = IF n < BusyThreshold THEN StatusIdle ELSE @]

DecrementLoadRow(node) ==
  LET n == IF node.ActiveTasks > 0 THEN node.ActiveTasks - 1 ELSE node.ActiveTasks
  IN  [node EXCEPT !.ActiveTasks = n,
                   !.Status = IF n < BusyThreshold THEN StatusIdle ELSE @]

MarkSuspectRow(node) == [node EXCEPT !.Status = StatusOverloaded]

\* Variant of the eviction test that waits for an age above the timeout.
EvictRowStrict(node, t) ==
  IF node.Status # StatusOffline /\ t - node.LastHeartbeat > HeartbeatTimeout
    THEN [node EXCEPT !.Status = StatusOffline]
    ELSE node

\* Variant of the eviction test that does not look at the heartbeat age.
EvictRowAlways(node, t) ==
  IF node.Status # StatusOffline
    THEN [node EXCEPT !.Status = StatusOffline]
    ELSE node

EvictRow(node, t) ==
  IF node.Status # StatusOffline /\ ~isAlive(node, t)
    THEN [node EXCEPT !.Status = StatusOffline]
    ELSE node

\* Registry methods as updates of the whole map (a missing id is a no-op).
IncrementLoad(reg, id) ==
  IF id \in DOMAIN reg THEN [reg EXCEPT ![id] = IncrementLoadRow(@)] ELSE reg

\* Variant of DecrementLoad that clears the count of the row.
DecrementLoadToZero(reg, id) ==
  IF id \in DOMAIN reg THEN [reg EXCEPT ![id] = [@ EXCEPT !.ActiveTasks = 0, !.Status = StatusIdle]]
  ELSE reg

DecrementLoad(reg, id) ==
  IF id \in DOMAIN reg THEN [reg EXCEPT ![id] = DecrementLoadRow(@)] ELSE reg

MarkSuspect(reg, id) ==
  IF id \in DOMAIN reg THEN [reg EXCEPT ![id] = MarkSuspectRow(@)] ELSE reg

\* ---------------------------------------------------------------------
\* History bookkeeping: what one load call of a task changed in ActiveTasks.
\* ---------------------------------------------------------------------
ActiveOf(reg, id) == IF id \in DOMAIN reg THEN reg[id].ActiveTasks ELSE 0

AddDelta(self, id, reg2) ==
  [loadDelta EXCEPT ![self][id] = @ + ActiveOf(reg2, id) - ActiveOf(nodes, id)]

\* ---------------------------------------------------------------------
\* Initial state: NewRegistry() and no request in flight
\* ---------------------------------------------------------------------
NoCall   == [Type |-> TaskTypeAny, ModelHint |-> "", Exclude |-> {}, Node |-> "nocall"]
NoResult == [RoutedTo |-> NoNode, Success |-> FALSE, Err |-> FALSE]
NoOp     == [Name |-> "none"]

\* No Registry method called yet, no handler holding a load increment.
RegInit ==
  /\ lastOp = NoOp
  /\ pending = [h \in Handlers |-> NoNode]

NoPipelineReq == [PipelineID |-> "", InitialInput |-> <<>>, Steps |-> <<>>]

NoPipelineResult ==
  [PipelineID |-> "", Steps |-> <<>>, FinalOutput |-> <<>>, TotalSteps |-> 0,
   Success |-> FALSE, Error |-> <<>>]

\* No pipeline request received, nothing broadcast.
PipeInit ==
  /\ plPc = "idle"
  /\ plReq = NoPipelineReq
  /\ plID = ""
  /\ results = <<>>
  /\ prevOutput = <<>>
  /\ taskReqs = <<>>
  /\ plResult = NoPipelineResult
  /\ plStatus = 0
  /\ events = <<>>

NoStreamHist == [Selected |-> <<>>, Dispatched |-> <<>>, Incs |-> 0, Decs |-> 0]

\* No streaming request received.
StreamInit ==
  /\ stPc = "idle"
  /\ stReq = NoReq
  /\ stNode = NoNode
  /\ stWritten = <<>>
  /\ stRead = 0
  /\ delivered = <<>>
  /\ stStatus = 0
  /\ stExit = "none"
  /\ stHist = NoStreamHist

Clients == {"c1", "c2"}                   \* the dashboard connections
NewClients == {"c2"}                      \* the dashboards that connect during a behaviour

NoEvent == [Type |-> "none", Seq |-> 0, NodeID |-> ""]
NoBroadcast == [Active |-> FALSE, Event |-> NoEvent, Left |-> {}]
NotStarted == <<NoEvent>>

\* NewEventHub(): no client; no Broadcast called.
HubInit ==
  /\ clients = {}
  /\ send = [c \in Clients |-> <<>>]
  /\ wsPc = [c \in Clients |-> "none"]
  /\ replay = [c \in Clients |-> <<>>]
  /\ sent = [c \in Clients |-> <<>>]
  /\ bcast = NoBroadcast
  /\ nEvents = 0
  /\ known = [c \in Clients |-> <<>>]
  /\ atStart = [c \in Clients |-> NotStarted]

NoLock == [Writer |-> FALSE, Readers |-> 0]
NoWriter == [Op |-> "none", NodeID |-> NoNode, Count |-> 0, Step |-> 0, Left |-> {}]

\* No Registry method running, AllNodes not called.
SnapInit ==
  /\ mu = NoLock
  /\ wrPc = NoWriter
  /\ snPc = "idle"
  /\ snLeft = {}
  /\ snList = {}
  /\ snapshot = {}
  /\ committed = <<>>
  /\ snFrom = 0

\* No request received.
ValInit == httpLog = {}

\* The agents are in registerWithRetry; the orchestrator is running.
AgentInit ==
  /\ agPc = [w \in Ids |-> "register"]
  /\ orchUp = TRUE
  /\ restarts = 0
  /\ hbCode = [w \in Ids |-> [Last |-> 0, Seen404 |-> FALSE]]

NoTemplateCall == [Template |-> <<>>, Prev |-> <<>>, InitialInput |-> <<>>, StepIndex |-> 0]

\* resolveTemplate not called.
TmplInit ==
  /\ tmplIn = NoTemplateCall
  /\ tmplOuts = <<>>

\* The hosts of the mesh; the orchestrator's "localhost" is OrchHost.
OrchHost == "orch-host"
Hosts == {OrchHost, "host-a", "host-b"}
AgentPorts == {9001, 9002}

\* Every agent on a host of its own, no task forwarded.
FwdInit ==
  /\ agentCfg = [w \in Ids |-> [AgentHost |-> IF w = "node-a" THEN "host-a" ELSE "host-b",
                                 AgentPort |-> 9001]]
  /\ agentPort = << >>
  /\ fwdLog = {}

\* The context of the pipeline request is not done.
CancelInit == plCancelAt = << >>

\* The requests that run concurrently in SpecLoad: a POST /task, a step of a
\* POST /pipeline and a POST /task/stream.
LoadRequests == {"unary", "step", "stream"}

\* No request running.
LoadInit ==
  /\ ldPc = [h \in LoadRequests |-> "idle"]
  /\ ldCur = [h \in LoadRequests |-> NoNode]
  /\ ldHeld = [h \in LoadRequests |-> << >>]
  /\ ldTried = [h \in LoadRequests |-> {}]
  /\ ldOld = [h \in LoadRequests |-> {}]

\* The request handlers that call an Emit function at the same time.
Broadcasters == {"b1", "b2"}

ConcInit ==
  /\ hcPc = [c \in Clients |-> "none"]
  /\ hcClients = {}
  /\ hcSend = [c \in Clients |-> <<>>]
  /\ hcReplay = [c \in Clients |-> <<>>]
  /\ hcSent = [c \in Clients |-> <<>>]
  /\ hcClosed = [c \in Clients |-> 0]
  /\ hcCalls = [c \in Clients |-> 0]
  /\ hcOnClosed = {}
  /\ hcB = [b \in Broadcasters |-> [Pc |-> "idle", Left |-> {}]]

LateInit == FwdInit /\ CancelInit /\ LoadInit /\ ConcInit

ExtInit == HubInit /\ SnapInit /\ ValInit /\ AgentInit /\ TmplInit /\ LateInit

AuxInit == RegInit /\ PipeInit /\ StreamInit /\ ExtInit

Init ==
  /\ nodes = << >>
  /\ now = 0
  /\ tickPending = FALSE
  /\ pc = [t \in Tasks |-> "idle"]
  /\ req = [t \in Tasks |-> NoReq]
  /\ tried = [t \in Tasks |-> {}]
  /\ cur = [t \in Tasks |-> NoNode]
  /\ held = [t \in Tasks |-> <<>>]
  /\ ctxDone = [t \in Tasks |-> FALSE]
  /\ result = [t \in Tasks |-> NoResult]
  /\ failed = [t \in Tasks |-> {}]
  /\ suspected = [t \in Tasks |-> {}]
  /\ answer = [t \in Tasks |-> "none"]
  /\ loadDelta = [t \in Tasks |-> [w \in Ids |-> 0]]
  /\ touched = {}
  /\ fbCall = NoCall
  /\ AuxInit

\* ---------------------------------------------------------------------
\* Time and the eviction loop
\* ---------------------------------------------------------------------
\* EvictInterval elapses; the ticker of evictLoop fires.
Tick ==
  /\ now + EvictInterval <= MaxTime
  /\ now' = now + EvictInterval
  /\ tickPending' = TRUE
  /\ UNCHANGED <<nodes, taskVars, loadDelta, touched, fbCall, auxVars>>

\* One iteration of the loop body of evictLoop.
Evict ==
  /\ tickPending
  /\ tickPending' = FALSE
  /\ nodes' = [id \in DOMAIN nodes |-> EvictRow(nodes[id], now)]
  /\ UNCHANGED <<now, taskVars, loadDelta, touched, fbCall, auxVars>>

\* ---------------------------------------------------------------------
\* Node-agent requests: POST /register, POST /heartbeat
\* ---------------------------------------------------------------------
Register(id, p) ==
  /\ nodes' = [w \in DOMAIN nodes \cup {id} |->
                 IF w = id THEN RegisterRow(p, now) ELSE nodes[w]]
  /\ touched' = IF id \in DOMAIN nodes THEN touched \cup {id} ELSE touched
  /\ UNCHANGED <<now, tickPending, taskVars, loadDelta, fbCall, auxVars>>

\* heartbeatLoop reports its own task count and the status derived from it.
Heartbeat(id, count) ==
  /\ id \in DOMAIN nodes
  /\ LET status == IF count >= BusyThreshold THEN StatusBusy ELSE StatusIdle
     IN  nodes' = [nodes EXCEPT ![id] = HeartbeatRow(@, status, count, now)]
  /\ touched' = touched \cup {id}
  /\ UNCHANGED <<now, tickPending, taskVars, loadDelta, fbCall, auxVars>>

\* ---------------------------------------------------------------------
\* Client: POST /task  (handleTask, routeWithFailover, forwardTask)
\* ---------------------------------------------------------------------
\* handleTask: decode the request, open the context, call routeWithFailover.
handleTask(self, r) ==
  /\ pc[self] = "idle"
  /\ pc' = [pc EXCEPT ![self] = "select"]
  /\ req' = [req EXCEPT ![self] = r]
  /\ UNCHANGED <<nodes, now, tickPending, tried, cur, held, ctxDone, result,
                 failed, suspected, answer, loadDelta, touched, fbCall, auxVars>>

\* Variant of the selection that passes an empty exclusion set.
FindBestNodeIgnoringTried(self, order) ==
  /\ pc[self] = "select"
  /\ LET node == findBest(nodes, now, order, req[self].Type, req[self].ModelHint, {})
     IN  IF node = NoNode
           THEN /\ result' = [result EXCEPT ![self] =
                                [RoutedTo |-> NoNode, Success |-> FALSE, Err |-> TRUE]]
                /\ pc' = [pc EXCEPT ![self] = IF held[self] = <<>> THEN "done" ELSE "unwind"]
                /\ cur' = cur
           ELSE /\ cur' = [cur EXCEPT ![self] = node]
                /\ pc' = [pc EXCEPT ![self] = "inc"]
                /\ result' = result
  /\ UNCHANGED <<nodes, now, tickPending, req, tried, held, ctxDone,
                 failed, suspected, answer, loadDelta, touched, fbCall, auxVars>>

\* routeWithFailover: registry.FindBestNodeExcluding(req.Type, req.ModelHint, tried).
FindBestNodeExcluding(self, order) ==
  /\ pc[self] = "select"
  /\ LET node == findBest(nodes, now, order, req[self].Type, req[self].ModelHint, tried[self])
     IN  IF node = NoNode
           THEN /\ result' = [result EXCEPT ![self] =
                                [RoutedTo |-> NoNode, Success |-> FALSE, Err |-> TRUE]]
                /\ pc' = [pc EXCEPT ![self] = IF held[self] = <<>> THEN "done" ELSE "unwind"]
                /\ cur' = cur
           ELSE /\ cur' = [cur EXCEPT ![self] = node]
                /\ pc' = [pc EXCEPT ![self] = "inc"]
                /\ result' = result
  /\ UNCHANGED <<nodes, now, tickPending, req, tried, held, ctxDone,
                 failed, suspected, answer, loadDelta, touched, fbCall, auxVars>>

\* routeWithFailover: registry.IncrementLoad(node.NodeID); defer DecrementLoad.
RouteIncrementLoad(self) ==
  /\ pc[self] = "inc"
  /\ nodes' = IncrementLoad(nodes, cur[self])
  /\ held' = [held EXCEPT ![self] = Append(@, cur[self])]
  /\ pc' = [pc EXCEPT ![self] = "forward"]
  /\ loadDelta' = AddDelta(self, cur[self], nodes')
  /\ UNCHANGED <<now, tickPending, req, tried, cur, ctxDone, result,
                 failed, suspected, answer, touched, fbCall, auxVars>>

\* Variant of forwardTask that forgets to record the failed node in tried.
forwardTaskNoExclude(self, ans) ==
  /\ pc[self] = "forward"
  /\ ctxDone[self] => ans = "err"
  /\ answer' = [answer EXCEPT ![self] = ans]
  /\ IF ans = "err"
       THEN /\ failed' = [failed EXCEPT ![self] = @ \cup {cur[self]}]
            /\ pc' = [pc EXCEPT ![self] = "suspect"]
            /\ UNCHANGED <<tried, result>>
       ELSE /\ result' = [result EXCEPT ![self] =
                            [RoutedTo |-> cur[self], Success |-> TRUE, Err |-> FALSE]]
            /\ pc' = [pc EXCEPT ![self] = "unwind"]
            /\ UNCHANGED <<tried, failed>>
  /\ UNCHANGED <<nodes, now, tickPending, req, cur, held, ctxDone,
                 suspected, loadDelta, touched, fbCall, auxVars>>

\* forwardTask returns: "err" is a transport or decode error (the only outcome
\* once the context is done), "ok" a decoded TaskResult with success = true,
\* "fail" a decoded TaskResult with success = false.
forwardTask(self, ans) ==
  /\ pc[self] = "forward"
  /\ ctxDone[self] => ans = "err"
  /\ answer' = [answer EXCEPT ![self] = ans]
  /\ IF ans = "err"
       THEN /\ tried' = [tried EXCEPT ![self] = @ \cup {cur[self]}]
            /\ failed' = [failed EXCEPT ![self] = @ \cup {cur[self]}]
            /\ pc' = [pc EXCEPT ![self] = "suspect"]
            /\ result' = result
       ELSE /\ result' = [result EXCEPT ![self] =
                            [RoutedTo |-> cur[self], Success |-> TRUE, Err |-> FALSE]]
            /\ pc' = [pc EXCEPT ![self] = "unwind"]
            /\ UNCHANGED <<tried, failed>>
  /\ UNCHANGED <<nodes, now, tickPending, req, cur, held, ctxDone,
                 suspected, loadDelta, touched, fbCall, auxVars>>

\* routeWithFailover: registry.MarkSuspect(node.NodeID), then the recursive call.
RouteMarkSuspect(self) ==
  /\ pc[self] = "suspect"
  /\ nodes' = MarkSuspect(nodes, cur[self])
  /\ suspected' = [suspected EXCEPT ![self] = @ \cup {cur[self]}]
  /\ pc' = [pc EXCEPT ![self] = "select"]
  /\ UNCHANGED <<now, tickPending, req, tried, cur, held, ctxDone, result,
                 failed, answer, loadDelta, touched, fbCall, auxVars>>

\* Variant of the deferred release that releases the node of the innermost
\* frame instead of the node of the returning frame.
RouteDecrementLoadInnermost(self) ==
  /\ pc[self] = "unwind"
  /\ LET n == Len(held[self])
     IN  /\ nodes' = DecrementLoad(nodes, cur[self])
         /\ held' = [held EXCEPT ![self] = SubSeq(@, 1, n - 1)]
         /\ pc' = [pc EXCEPT ![self] = IF n = 1 THEN "done" ELSE "unwind"]
         /\ loadDelta' = AddDelta(self, cur[self], nodes')
  /\ UNCHANGED <<now, tickPending, req, tried, cur, ctxDone, result,
                 failed, suspected, answer, touched, fbCall, auxVars>>

\* A routeWithFailover frame returns: its deferred registry.DecrementLoad runs.
\* The innermost frame returns first; after the outermost, handleTask answers.
RouteDecrementLoad(self) ==
  /\ pc[self] = "unwind"
  /\ LET n == Len(held[self])
     IN  /\ nodes' = DecrementLoad(nodes, held[self][n])
         /\ held' = [held EXCEPT ![self] = SubSeq(@, 1, n - 1)]
         /\ pc' = [pc EXCEPT ![self] = IF n = 1 THEN "done" ELSE "unwind"]
         /\ loadDelta' = AddDelta(self, held[self][n], nodes')
  /\ UNCHANGED <<now, tickPending, req, tried, cur, ctxDone, result,
                 failed, suspected, answer, touched, fbCall, auxVars>>

\* The client disconnects or taskTimeout expires: ctx is done.
Cancel(self) ==
  /\ pc[self] \notin {"idle", "done"}
  /\ ~ctxDone[self]
  /\ ctxDone' = [ctxDone EXCEPT ![self] = TRUE]
  /\ UNCHANGED <<nodes, now, tickPending, pc, req, tried, cur, held, result,
                 failed, suspected, answer, loadDelta, touched, fbCall, auxVars>>

\* The HTTP status handleTask answers with.
HttpStatus(self) == IF result[self].Err THEN 503 ELSE 200

\* ---------------------------------------------------------------------
\* Specification
\* ---------------------------------------------------------------------
Next ==
  \/ Tick
  \/ Evict
  \/ \E id \in Ids : \E p \in Profiles(id) : Register(id, p)
  \/ \E id \in Ids : \E c \in ReportCounts : Heartbeat(id, c)
  \/ \E t \in Tasks : \E r \in Requests : handleTask(t, r)
  \/ \E t \in Tasks : \E o \in Orders(DOMAIN nodes) : FindBestNodeExcluding(t, o)
  \/ \E t \in Tasks : RouteIncrementLoad(t)
  \/ \E t \in Tasks : \E a \in {"ok", "fail", "err"} : forwardTask(t, a)
  \/ \E t \in Tasks : RouteMarkSuspect(t)
  \/ \E t \in Tasks : RouteDecrementLoad(t)
  \/ \E t \in Tasks : Cancel(t)

Spec == Init /\ [][Next]_vars

\* The client disconnects or taskTimeout expires while forwardTask is waiting
\* for the agent: http.DefaultClient.Do returns the context's error.
CancelInFlight(self) ==
  /\ pc[self] = "forward"
  /\ Cancel(self)

\* The program when requests are only cancelled during a forward.
NextInFlight ==
  \/ Tick
  \/ Evict
  \/ \E id \in Ids : \E p \in Profiles(id) : Register(id, p)
  \/ \E id \in Ids : \E c \in ReportCounts : Heartbeat(id, c)
  \/ \E t \in Tasks : \E r \in Requests : handleTask(t, r)
  \/ \E t \in Tasks : \E o \in Orders(DOMAIN nodes) : FindBestNodeExcluding(t, o)
  \/ \E t \in Tasks : RouteIncrementLoad(t)
  \/ \E t \in Tasks : \E a \in {"ok", "fail", "err"} : forwardTask(t, a)
  \/ \E t \in Tasks : RouteMarkSuspect(t)
  \/ \E t \in Tasks : RouteDecrementLoad(t)
  \/ \E t \in Tasks : CancelInFlight(t)

SpecInFlight == Init /\ [][NextInFlight]_vars

\* ---------------------------------------------------------------------
\* findBest as a function of the registry: SpecFindBest starts from any
\* registry over AllIds and calls FindBestNodeExcluding directly.
\* ---------------------------------------------------------------------
\* The rows a registry can hold at time t: any status and load the handlers
\* can leave behind; a row is only offline when its heartbeat is stale.
RowsAt(id, t) ==
  { r \in [Models        : {ProfileOf(id).Models},
           Capabilities  : {ProfileOf(id).Capabilities},
           Status        : {StatusIdle, StatusBusy, StatusOverloaded, StatusOffline},
           ActiveTasks   : 0..MaxActive,
           LastHeartbeat : {t - HeartbeatTimeout, t - HeartbeatTimeout + EvictInterval}] :
      r.Status = StatusOffline => ~isAlive(r, t) }

RegistriesAt(t) ==
  UNION { { reg \in [S -> UNION {RowsAt(id, t) : id \in S}] :
              \A id \in S : reg[id] \in RowsAt(id, t) } : S \in SUBSET AllIds }

InitFindBest ==
  /\ now = HeartbeatTimeout
  /\ nodes \in RegistriesAt(now)
  /\ tickPending = FALSE
  /\ pc = [t \in Tasks |-> "idle"]
  /\ req = [t \in Tasks |-> NoReq]
  /\ tried = [t \in Tasks |-> {}]
  /\ cur = [t \in Tasks |-> NoNode]
  /\ held = [t \in Tasks |-> <<>>]
  /\ ctxDone = [t \in Tasks |-> FALSE]
  /\ result = [t \in Tasks |-> NoResult]
  /\ failed = [t \in Tasks |-> {}]
  /\ suspected = [t \in Tasks |-> {}]
  /\ answer = [t \in Tasks |-> "none"]
  /\ loadDelta = [t \in Tasks |-> [w \in Ids |-> 0]]
  /\ touched = {}
  /\ fbCall = NoCall
  /\ AuxInit

\* Registry.FindBestNodeExcluding(taskType, modelHint, exclude), the map being
\* iterated in the order `order`; one call per behaviour.
CallFindBest(taskType, modelHint, exclude, order) ==
  /\ fbCall = NoCall
  /\ fbCall' = [Type |-> taskType, ModelHint |-> modelHint, Exclude |-> exclude,
                Node |-> findBest(nodes, now, order, taskType, modelHint, exclude)]
  /\ UNCHANGED <<nodes, now, tickPending, taskVars, loadDelta, touched, auxVars>>

NextFindBest ==
  /\ fbCall = NoCall
  /\ \E order \in Orders(DOMAIN nodes) :
       \E taskType \in TaskTypes : \E modelHint \in Hints : \E exclude \in SUBSET Ids :
         CallFindBest(taskType, modelHint, exclude, order)

SpecFindBest == InitFindBest /\ [][NextFindBest]_vars

\* ---------------------------------------------------------------------
\* The registry on its own: SpecRegistry lets the HTTP handlers and the
\* eviction loop call the Registry methods in every interleaving.
\* ---------------------------------------------------------------------
\* The configurations an agent can register with: node-a is also restarted
\* with the models of node-b.
RegProfiles(id) == IF id = "node-a" THEN {ProfileA, ProfileB} ELSE {ProfileB}

\* Registry.AllNodes: a snapshot with one entry per row.
AllNodes(reg) == { [NodeID |-> id, Info |-> reg[id]] : id \in DOMAIN reg }

\* Variant of Registry.Register that updates an existing row in place and
\* keeps its status and load.
RegisterNodesInPlace(reg, id, p, t) ==
  [w \in DOMAIN reg \cup {id} |->
     IF w # id THEN reg[w]
     ELSE IF id \in DOMAIN reg
       THEN [RegisterRow(p, t) EXCEPT !.Status = reg[id].Status,
                                      !.ActiveTasks = reg[id].ActiveTasks]
       ELSE RegisterRow(p, t)]

\* Registry.Register on the map: the row of id is replaced (or created).
RegisterNodes(reg, id, p, t) ==
  [w \in DOMAIN reg \cup {id} |-> IF w = id THEN RegisterRow(p, t) ELSE reg[w]]

\* Variant of Registry.Heartbeat that creates a row for an unknown node.
HeartbeatNodesUpsert(reg, id, status, count, t) ==
  [w \in DOMAIN reg \cup {id} |->
     IF w # id THEN reg[w]
     ELSE IF id \in DOMAIN reg THEN HeartbeatRow(reg[id], status, count, t)
     ELSE [Models |-> <<>>, Capabilities |-> <<>>, Status |-> status,
           ActiveTasks |-> count, LastHeartbeat |-> t]]

\* Registry.Heartbeat on the map: an unknown node changes nothing.
HeartbeatNodes(reg, id, status, count, t) ==
  IF id \in DOMAIN reg THEN [reg EXCEPT ![id] = HeartbeatRow(@, status, count, t)] ELSE reg

\* The value Registry.Heartbeat returns.
HeartbeatKnown(reg, id) == id \in DOMAIN reg

\* What the last Registry call found in the row of id before it ran.
RowBefore(reg, id) ==
  IF id \in DOMAIN reg
    THEN [Present |-> TRUE, Status |-> reg[id].Status, ActiveTasks |-> reg[id].ActiveTasks]
    ELSE [Present |-> FALSE, Status |-> "", ActiveTasks |-> 0]

nonRegVars == <<taskVars, loadDelta, touched, fbCall, pipeVars, streamVars, extVars>>

\* POST /register: handleRegister calls registry.Register(req).
handleRegister(id, p) ==
  /\ nodes' = RegisterNodes(nodes, id, p, now)
  /\ lastOp' = [Name |-> "register", NodeID |-> id, Models |-> p.Models,
                Capabilities |-> p.Capabilities, At |-> now,
                Before |-> RowBefore(nodes, id)]
  /\ UNCHANGED <<now, tickPending, pending, nonRegVars>>

\* POST /heartbeat: handleHeartbeat calls registry.Heartbeat(req) and answers
\* 404 when it returns false. heartbeatLoop sends its own task count and the
\* status derived from it.
handleHeartbeat(id, count) ==
  /\ LET status == IF count >= BusyThreshold THEN StatusBusy ELSE StatusIdle
     IN  nodes' = HeartbeatNodes(nodes, id, status, count, now)
  /\ lastOp' = IF HeartbeatKnown(nodes, id)
                 THEN [Name |-> "heartbeat", NodeID |-> id, Code |-> 200, Body |-> ""]
                 ELSE [Name |-> "heartbeat", NodeID |-> id, Code |-> 404,
                       Body |-> "unknown node, please re-register"]
  /\ UNCHANGED <<now, tickPending, pending, nonRegVars>>

\* Handler h has selected node id: it calls registry.IncrementLoad and defers
\* registry.DecrementLoad.
CallIncrementLoad(h, id) ==
  /\ id \in DOMAIN nodes
  /\ pending[h] = NoNode
  /\ nodes' = IncrementLoad(nodes, id)
  /\ pending' = [pending EXCEPT ![h] = id]
  /\ lastOp' = [Name |-> "increment_load", NodeID |-> id]
  /\ UNCHANGED <<now, tickPending, nonRegVars>>

\* Handler h returns: its deferred registry.DecrementLoad runs.
CallDecrementLoad(h) ==
  /\ pending[h] # NoNode
  /\ nodes' = DecrementLoad(nodes, pending[h])
  /\ pending' = [pending EXCEPT ![h] = NoNode]
  /\ lastOp' = [Name |-> "decrement_load", NodeID |-> pending[h],
                Before |-> RowBefore(nodes, pending[h])]
  /\ UNCHANGED <<now, tickPending, nonRegVars>>

\* The forward of handler h failed: routeWithFailover calls registry.MarkSuspect.
CallMarkSuspect(h) ==
  /\ pending[h] # NoNode
  /\ nodes' = MarkSuspect(nodes, pending[h])
  /\ lastOp' = [Name |-> "mark_suspect", NodeID |-> pending[h]]
  /\ UNCHANGED <<now, tickPending, pending, nonRegVars>>

\* One iteration of the loop body of evictLoop.
evictLoop ==
  /\ tickPending
  /\ tickPending' = FALSE
  /\ nodes' = [id \in DOMAIN nodes |-> EvictRow(nodes[id], now)]
  /\ lastOp' = [Name |-> "evict"]
  /\ UNCHANGED <<now, pending, nonRegVars>>

NextRegistry ==
  \/ Tick
  \/ evictLoop
  \/ \E id \in Ids : \E p \in RegProfiles(id) : handleRegister(id, p)
  \/ \E id \in Ids : \E c \in ReportCounts : handleHeartbeat(id, c)
  \/ \E h \in Handlers : \E id \in Ids : CallIncrementLoad(h, id)
  \/ \E h \in Handlers : CallDecrementLoad(h)
  \/ \E h \in Handlers : CallMarkSuspect(h)

SpecRegistry == Init /\ [][NextRegistry]_vars

\* The ticker of evictLoop keeps firing and the loop body runs after each tick.
SpecRegistryFair == SpecRegistry /\ WF_vars(Tick) /\ WF_vars(evictLoop)

\* ---------------------------------------------------------------------
\* Client: POST /pipeline  (handlePipeline, ExecutePipeline, resolveTemplate)
\* A string is a sequence of tokens; the empty string is << >>.  The braces
\* "{{" and "}}" and the names of the variables are tokens of their own, so
\* that a placeholder is three tokens and can also come about where two
\* pieces of text meet.
\* ---------------------------------------------------------------------
PrevOutputVar   == <<"{{", "prev_output", "}}">>
InitialInputVar == <<"{{", "initial_input", "}}">>
StepIndexVar    == <<"{{", "step_index", "}}">>

\* The steps clients put in a pipeline (test-phase4.sh): a step on the previous
\* output, a step without template and a step on the initial input that names
\* its index.
StepKinds ==
  { [Type |-> TaskTypeSummarize, ModelHint |-> "", PromptTemplate |-> <<"Summarize: ">> \o PrevOutputVar],
    [Type |-> TaskTypeText,      ModelHint |-> "", PromptTemplate |-> <<>>],
    [Type |-> TaskTypeCode,      ModelHint |-> "", PromptTemplate |-> StepIndexVar \o InitialInputVar] }

StepLists == UNION { [1..n -> StepKinds] : n \in 0..MaxSteps }

PipelineRequests ==
  [PipelineID : {"", "three-step-test"}, InitialInput : {<<>>, <<"input">>}, Steps : StepLists]

\* What an agent's model answers; an answer may itself contain a placeholder.
Contents == { <<"out">>, <<"text ">> \o PrevOutputVar }

\* uuid.New().String()
Uuids == {"uuid-1"}

\* s starts with the placeholder p.
HasPrefix(s, p) == Len(s) >= Len(p) /\ SubSeq(s, 1, Len(p)) = p

TrimPrefix(s, p) == SubSeq(s, Len(p) + 1, Len(s))

\* The Replacer of strings.NewReplacer: the string is scanned from the left;
\* where a placeholder starts its binding is written and the scan goes on
\* behind the placeholder, otherwise the token is copied.
RECURSIVE ReplaceScan(_, _, _, _)
ReplaceScan(s, prev, initialInput, stepIndex) ==
  IF s = <<>> THEN <<>>
  ELSE IF HasPrefix(s, PrevOutputVar)
    THEN prev \o ReplaceScan(TrimPrefix(s, PrevOutputVar), prev, initialInput, stepIndex)
  ELSE IF HasPrefix(s, InitialInputVar)
    THEN initialInput \o ReplaceScan(TrimPrefix(s, InitialInputVar), prev, initialInput, stepIndex)
  ELSE IF HasPrefix(s, StepIndexVar)
    THEN <<ToString(stepIndex)>> \o ReplaceScan(TrimPrefix(s, StepIndexVar), prev, initialInput, stepIndex)
  ELSE <<Head(s)>> \o ReplaceScan(Tail(s), prev, initialInput, stepIndex)

\* Variant of r.Replace that scans its own result once more.
ReplaceRescanned(tmpl, prev, initialInput, stepIndex) ==
  ReplaceScan(ReplaceScan(tmpl, prev, initialInput, stepIndex), prev, initialInput, stepIndex)

\* r.Replace(tmpl)
Replace(tmpl, prev, initialInput, stepIndex) ==
  ReplaceScan(tmpl, prev, initialInput, stepIndex)

resolveTemplate(tmpl, prev, initialInput, stepIndex) ==
  IF tmpl = <<>> THEN prev ELSE Replace(tmpl, prev, initialInput, stepIndex)

\* Variant of the task id that counts steps from 1.
TaskIDOfOneBased(pipelineID, i) == <<pipelineID, "_step_", ToString(i + 1)>>

\* fmt.Sprintf("%s_step_%d", req.PipelineID, i)
TaskIDOf(pipelineID, i) == <<pipelineID, "_step_", ToString(i)>>

\* The TaskRequest ExecutePipeline builds for step i (0-based).
StepTaskRequest(preq, pipelineID, i, prev) ==
  [TaskID    |-> TaskIDOf(pipelineID, i),
   Prompt    |-> resolveTemplate(preq.Steps[i + 1].PromptTemplate, prev, preq.InitialInput, i),
   Type      |-> preq.Steps[i + 1].Type,
   ModelHint |-> preq.Steps[i + 1].ModelHint]

\* The error routeWithFailover returns when no candidate is left.
NoMoreNodes == "no more nodes to try"

FailedStepResult(treq, i) ==
  [StepIndex |-> i, TaskID |-> treq.TaskID, Type |-> treq.Type, RoutedTo |-> "",
   Content |-> <<>>, Success |-> FALSE, Error |-> NoMoreNodes]

OkStepResult(treq, i, routedTo, content) ==
  [StepIndex |-> i, TaskID |-> treq.TaskID, Type |-> treq.Type, RoutedTo |-> routedTo,
   Content |-> content, Success |-> TRUE, Error |-> ""]

\* Variant of the abort result that names the failed step by its 0-based index.
FailureResultZeroBased(preq, pipelineID, res, i) ==
  [PipelineID |-> pipelineID, Steps |-> res, FinalOutput |-> <<>>,
   TotalSteps |-> Len(preq.Steps), Success |-> FALSE,
   Error |-> <<"step ", ToString(i), " failed: ", NoMoreNodes>>]

\* The PipelineResult returned when step i fails.
FailureResult(preq, pipelineID, res, i) ==
  [PipelineID |-> pipelineID, Steps |-> res, FinalOutput |-> <<>>,
   TotalSteps |-> Len(preq.Steps), Success |-> FALSE,
   Error |-> <<"step ", ToString(i + 1), " failed: ", NoMoreNodes>>]

\* The PipelineResult returned after the last step.
SuccessResult(preq, pipelineID, res, prev) ==
  [PipelineID |-> pipelineID, Steps |-> res, FinalOutput |-> prev,
   TotalSteps |-> Len(preq.Steps), Success |-> TRUE, Error |-> <<>>]

\* EmitPipelineStarted / EmitPipelineDone of the event hub (websocket.go);
\* ExecutePipeline and handlePipeline do not call them.
EmitPipelineStarted(log, pipelineID, totalSteps) ==
  Append(log, [Type |-> "pipeline_started", PipelineID |-> pipelineID, TotalSteps |-> totalSteps])

EmitPipelineDone(log, res) ==
  Append(log, [Type |-> "pipeline_done", PipelineID |-> res.PipelineID, TotalSteps |-> res.TotalSteps])

\* ExecutePipeline calls routeWithFailover(ctx, taskReq, nil) for a step.
StartRoute(self, treq) ==
  /\ pc' = [pc EXCEPT ![self] = "select"]
  /\ req' = [req EXCEPT ![self] = [Type |-> treq.Type, ModelHint |-> treq.ModelHint]]
  /\ tried' = [tried EXCEPT ![self] = {}]
  /\ cur' = [cur EXCEPT ![self] = NoNode]
  /\ result' = [result EXCEPT ![self] = NoResult]
  /\ failed' = [failed EXCEPT ![self] = {}]
  /\ suspected' = [suspected EXCEPT ![self] = {}]
  /\ answer' = [answer EXCEPT ![self] = "none"]
  /\ loadDelta' = [loadDelta EXCEPT ![self] = [w \in Ids |-> 0]]
  /\ UNCHANGED <<held, ctxDone>>

\* handlePipeline: decode and validate the request; ExecutePipeline up to the
\* routeWithFailover call of step 0.
handlePipeline(self, r, uuid) ==
  /\ plPc = "idle"
  /\ pc[self] = "idle"
  /\ plReq' = r
  /\ IF Len(r.Steps) = 0 \/ r.InitialInput = <<>>
       THEN /\ plStatus' = 400
            /\ plPc' = "done"
            /\ UNCHANGED <<plID, results, prevOutput, taskReqs, taskVars, loadDelta>>
       ELSE LET id == IF r.PipelineID = "" THEN uuid ELSE r.PipelineID
                treq == StepTaskRequest(r, id, 0, r.InitialInput)
            IN  /\ plID' = id
                /\ results' = <<>>
                /\ prevOutput' = r.InitialInput
                /\ taskReqs' = <<treq>>
                /\ StartRoute(self, treq)
                /\ plPc' = "step"
                /\ plStatus' = plStatus
  /\ UNCHANGED <<nodes, now, tickPending, touched, fbCall, regVars, plResult, events, streamVars, extVars>>

\* ExecutePipeline after routeWithFailover has returned for step i: the step
\* result is appended; on error the pipeline is aborted, otherwise the next
\* step is built and routed or, after the last step, the result returned.
\* handlePipeline then answers 500 or 200. An agent that answered
\* success = false sent no content.
ExecutePipelineStep(self, content) ==
  /\ plPc = "step"
  /\ pc[self] = "done"
  /\ LET i    == Len(results)
         treq == taskReqs[Len(taskReqs)]
         c    == IF answer[self] = "ok" THEN content ELSE <<>>
     IN  IF result[self].Err
           THEN /\ results' = Append(results, FailedStepResult(treq, i))
                /\ plResult' = FailureResult(plReq, plID, results', i)
                /\ plStatus' = 500
                /\ plPc' = "done"
                /\ UNCHANGED <<prevOutput, taskReqs, taskVars, loadDelta>>
           ELSE /\ results' = Append(results, OkStepResult(treq, i, result[self].RoutedTo, c))
                /\ prevOutput' = c
                /\ IF i + 1 < Len(plReq.Steps)
                     THEN LET nxt == StepTaskRequest(plReq, plID, i + 1, c)
                          IN  /\ taskReqs' = Append(taskReqs, nxt)
                              /\ StartRoute(self, nxt)
                              /\ UNCHANGED <<plResult, plStatus, plPc>>
                     ELSE /\ plResult' = SuccessResult(plReq, plID, results', c)
                          /\ plStatus' = 200
                          /\ plPc' = "done"
                          /\ UNCHANGED <<taskReqs, taskVars, loadDelta>>
  /\ UNCHANGED <<nodes, now, tickPending, touched, fbCall, regVars, plReq, plID, events, streamVars, extVars>>

\* The agents register before the pipeline request arrives.
NextPipeline ==
  \/ /\ plPc = "idle"
     /\ \E id \in Ids : \E p \in Profiles(id) : Register(id, p)
  \/ \E t \in Tasks : \E r \in PipelineRequests : \E u \in Uuids : handlePipeline(t, r, u)
  \/ /\ plPc = "step"
     /\ \/ \E t \in Tasks : \E o \in Orders(DOMAIN nodes) : FindBestNodeExcluding(t, o)
        \/ \E t \in Tasks : RouteIncrementLoad(t)
        \/ \E t \in Tasks : \E a \in {"ok", "fail", "err"} : forwardTask(t, a)
        \/ \E t \in Tasks : RouteMarkSuspect(t)
        \/ \E t \in Tasks : RouteDecrementLoad(t)
  \/ \E t \in Tasks : \E c \in Contents : ExecutePipelineStep(t, c)

SpecPipeline == Init /\ [][NextPipeline]_vars

\* ---------------------------------------------------------------------
\* Client: POST /task/stream  (handleTaskStream, forwardTaskStream) and the
\* agent's /execute/stream (makeExecuteStreamHandler)
\* ---------------------------------------------------------------------
\* A line of the agent's response body: an empty line, a line that is not the
\* JSON of a TaskChunk, or the JSON of a chunk (the agent sets task_id, token
\* and done only).
BlankLine   == [Kind |-> "blank"]
GarbageLine == [Kind |-> "garbage"]
ChunkLine(token, done) ==
  [Kind |-> "chunk", Token |-> token, Done |-> done, RoutedTo |-> "", LatencyMs |-> 0]

Lines ==
  { BlankLine, GarbageLine,
    ChunkLine("a", FALSE), ChunkLine("b", FALSE), ChunkLine("", TRUE) }

\* time.Since(startedAt).Milliseconds() when the done chunk arrives.
Elapsed == {0, 12}

\* Registry.FindBestNode(taskType, modelHint): findBest without exclusions.
FindBestNode(reg, t, order, taskType, modelHint) ==
  findBest(reg, t, order, taskType, modelHint, {})

\* The callback handleTaskStream passes to forwardTaskStream: the chunk as it
\* is written to the client.
onChunk(chunk, node, elapsed) ==
  [Token     |-> chunk.Token,
   Done      |-> chunk.Done,
   RoutedTo  |-> node,
   LatencyMs |-> IF chunk.Done THEN elapsed ELSE chunk.LatencyMs]

\* forwardTaskStream: len(line) == 0 and json.Unmarshal errors are skipped.
IsChunk(line) == line.Kind = "chunk"

\* Variant of the read loop that keeps reading after the done chunk.
StopsAfterNever(line) == FALSE

\* forwardTaskStream: the loop is left after a chunk with done = true.
StopsAfter(line) == IsChunk(line) /\ line.Done

nonStreamVars == <<now, tickPending, taskVars, loadDelta, touched, fbCall, regVars, pipeVars, extVars>>

\* handleTaskStream: decode the request and call registry.FindBestNode once;
\* 503 when it finds no node.
handleTaskStream(r, order) ==
  /\ stPc = "idle"
  /\ stReq' = r
  /\ LET node == FindBestNode(nodes, now, order, r.Type, r.ModelHint)
     IN  IF node = NoNode
           THEN /\ stStatus' = 503
                /\ stExit' = "no_node"
                /\ stPc' = "done"
                /\ UNCHANGED <<stNode, stHist>>
           ELSE /\ stNode' = node
                /\ stHist' = [stHist EXCEPT !.Selected = Append(@, node)]
                /\ stPc' = "inc"
                /\ UNCHANGED <<stStatus, stExit>>
  /\ UNCHANGED <<nodes, stWritten, stRead, delivered, nonStreamVars>>

\* handleTaskStream: registry.IncrementLoad(node.NodeID), defer DecrementLoad,
\* the SSE headers and the http.Flusher test (500 when the writer cannot flush).
StreamIncrementLoad(flusher) ==
  /\ stPc = "inc"
  /\ nodes' = IncrementLoad(nodes, stNode)
  /\ stHist' = [stHist EXCEPT !.Incs = @ + 1]
  /\ IF flusher
       THEN /\ stPc' = "connect"
            /\ UNCHANGED <<stStatus, stExit>>
       ELSE /\ stPc' = "release"
            /\ stStatus' = 500
            /\ stExit' = "no_flusher"
  /\ UNCHANGED <<stReq, stNode, stWritten, stRead, delivered, nonStreamVars>>

\* forwardTaskStream: http.DefaultClient.Do reaches the agent, which starts
\* to answer.
StreamConnect ==
  /\ stPc = "connect"
  /\ stHist' = [stHist EXCEPT !.Dispatched = Append(@, stNode)]
  /\ stPc' = "stream"
  /\ stStatus' = 200
  /\ UNCHANGED <<nodes, stReq, stNode, stWritten, stRead, delivered, stExit, nonStreamVars>>

\* The agent writes one more line to its response body.
AgentWrite(line) ==
  /\ stPc = "stream"
  /\ Len(stWritten) < MaxLines
  /\ stWritten' = Append(stWritten, line)
  /\ UNCHANGED <<nodes, stPc, stReq, stNode, stRead, delivered, stStatus, stExit, stHist,
                 nonStreamVars>>

\* forwardTaskStream: scanner.Scan returns the next line; a chunk goes through
\* onChunk to the client, and a done chunk ends the loop.
ScanLine(elapsed) ==
  /\ stPc = "stream"
  /\ stRead < Len(stWritten)
  /\ LET line == stWritten[stRead + 1]
     IN  /\ stRead' = stRead + 1
         /\ delivered' = IF IsChunk(line)
                           THEN Append(delivered, onChunk(line, stNode, elapsed))
                           ELSE delivered
         /\ IF StopsAfter(line)
              THEN stPc' = "release" /\ stExit' = "done_chunk"
              ELSE UNCHANGED <<stPc, stExit>>
  /\ UNCHANGED <<nodes, stReq, stNode, stWritten, stStatus, stHist, nonStreamVars>>

\* forwardTaskStream returns without a done chunk: the agent is unreachable
\* or its stream breaks ("error"), the client disconnects and the request
\* context is cancelled ("cancel"), or the agent closed the body and every
\* line has been read ("eof").
StreamEnd(why) ==
  /\ stPc \in {"connect", "stream"}
  /\ why = "eof" => (stPc = "stream" /\ stRead = Len(stWritten))
  /\ stPc' = "release"
  /\ stExit' = why
  /\ stStatus' = IF stPc = "connect" THEN 200 ELSE stStatus
  /\ UNCHANGED <<nodes, stReq, stNode, stWritten, stRead, delivered, stHist, nonStreamVars>>

\* Variant of the release that only runs after a completed stream.
StreamDecrementLoadOnSuccess ==
  /\ stPc = "release"
  /\ IF stExit = "done_chunk"
       THEN /\ nodes' = DecrementLoad(nodes, stNode)
            /\ stHist' = [stHist EXCEPT !.Decs = @ + 1]
       ELSE UNCHANGED <<nodes, stHist>>
  /\ stPc' = "done"
  /\ UNCHANGED <<stReq, stNode, stWritten, stRead, delivered, stStatus, stExit, nonStreamVars>>

\* handleTaskStream returns: the deferred registry.DecrementLoad runs.
StreamDecrementLoad ==
  /\ stPc = "release"
  /\ nodes' = DecrementLoad(nodes, stNode)
  /\ stHist' = [stHist EXCEPT !.Decs = @ + 1]
  /\ stPc' = "done"
  /\ UNCHANGED <<stReq, stNode, stWritten, stRead, delivered, stStatus, stExit, nonStreamVars>>

\* The agents register before the streaming request arrives.
NextStream ==
  \/ /\ stPc = "idle"
     /\ \E id \in Ids : \E p \in Profiles(id) : Register(id, p)
  \/ \E r \in Requests : \E o \in Orders(DOMAIN nodes) : handleTaskStream(r, o)
  \/ \E f \in BOOLEAN : StreamIncrementLoad(f)
  \/ StreamConnect
  \/ \E l \in Lines : AgentWrite(l)
  \/ \E e \in Elapsed : ScanLine(e)
  \/ \E why \in {"error", "cancel", "eof"} : StreamEnd(why)
  \/ StreamDecrementLoad

SpecStream == Init /\ [][NextStream]_vars

\* ---------------------------------------------------------------------
\* Dashboard: the event hub (websocket.go): handleWS, sendInitialState,
\* writePump, readPump and Broadcast.  A send channel is the sequence of
\* the messages it buffers, oldest first.
\* ---------------------------------------------------------------------
\* The MeshEvents: a live event given to Broadcast (numbered in call order)
\* and the two events sendInitialState synthesizes.
LiveEvent(n) == [Type |-> "task_routed", Seq |-> n, NodeID |-> ""]

NodeRegisteredEvent(id) == [Type |-> "node_registered", Seq |-> 0, NodeID |-> id]

StatsEvent == [Type |-> "stats", Seq |-> 0, NodeID |-> ""]

\* The registries a dashboard connects to: none, two, SendCap - 1 or SendCap
\* registered agents.
KnownCounts == {0, 2, SendCap - 1, SendCap}

HubWorkerList(n) == [i \in 1..n |-> "node-" \o ToString(i)]

HubRegistries ==
  { [id \in {HubWorkerList(n)[i] : i \in 1..n} |-> RegisterRow(ProfileB, 0)] : n \in KnownCounts }

Reverse(list) == [i \in 1..Len(list) |-> list[Len(list) + 1 - i]]

\* The lists Registry.AllNodes can return (it ranges over the map): every
\* order of a registry of at most two rows, two opposite orders of a larger one.
AllNodesLists(reg) ==
  IF Cardinality(DOMAIN reg) <= 2
    THEN Orders(DOMAIN reg)
    ELSE {HubWorkerList(Cardinality(DOMAIN reg)), Reverse(HubWorkerList(Cardinality(DOMAIN reg)))}

\* The messages sendInitialState enqueues for the list AllNodes returned.
ReplayOf(list) == [i \in 1..Len(list) |-> NodeRegisteredEvent(list[i])] \o <<StatsEvent>>

\* Variant of the send that waits for room in the channel (no default case).
SendReadyWhenRoom(q) == Len(q) < SendCap

\* select { case client.send <- data: default: }: the statement is always ready.
SendReady(q) == TRUE

\* What the select leaves in the channel: the message is enqueued when there
\* is room and dropped otherwise.
TrySend(q, msg) == IF Len(q) < SendCap THEN Append(q, msg) ELSE q

\* Variant of the receive that takes the newest message.
ReceiveNewest(q) == [Msg |-> q[Len(q)], Rest |-> SubSeq(q, 1, Len(q) - 1)]

\* msg := <-c.send
Receive(q) == [Msg |-> Head(q), Rest |-> Tail(q)]

\* The events broadcast to a client whose writer has stalled: k live events.
Backlog(k) == [i \in 1..k |-> LiveEvent(i - k)]

\* Everything but the registry and the hub in its initial state.
InitOutsideHub ==
  /\ now = 0
  /\ tickPending = FALSE
  /\ pc = [t \in Tasks |-> "idle"]
  /\ req = [t \in Tasks |-> NoReq]
  /\ tried = [t \in Tasks |-> {}]
  /\ cur = [t \in Tasks |-> NoNode]
  /\ held = [t \in Tasks |-> <<>>]
  /\ ctxDone = [t \in Tasks |-> FALSE]
  /\ result = [t \in Tasks |-> NoResult]
  /\ failed = [t \in Tasks |-> {}]
  /\ suspected = [t \in Tasks |-> {}]
  /\ answer = [t \in Tasks |-> "none"]
  /\ loadDelta = [t \in Tasks |-> [w \in Ids |-> 0]]
  /\ touched = {}
  /\ fbCall = NoCall
  /\ RegInit /\ PipeInit /\ StreamInit
  /\ SnapInit /\ ValInit /\ AgentInit /\ TmplInit /\ LateInit

\* A hub in service, at most two agents registered: no client yet, or client
\* c1 connected (when the registry was empty), its stats message written and
\* its channel holding a backlog.
InitHub ==
  /\ InitOutsideHub
  /\ nodes \in {reg \in HubRegistries : Cardinality(DOMAIN reg) <= 2}
  /\ \/ HubInit
     \/ \E k \in {SendCap - 1, SendCap} :
          /\ clients = {"c1"}
          /\ send = [c \in Clients |-> IF c = "c1" THEN Backlog(k) ELSE <<>>]
          /\ wsPc = [c \in Clients |-> IF c = "c1" THEN "running" ELSE "none"]
          /\ replay = [c \in Clients |-> <<>>]
          /\ sent = [c \in Clients |-> IF c = "c1" THEN <<StatsEvent>> ELSE <<>>]
          /\ bcast = NoBroadcast
          /\ nEvents = 0
          /\ known = [c \in Clients |-> <<>>]
          /\ atStart = [c \in Clients |-> IF c = "c1" THEN <<StatsEvent>> ELSE NotStarted]

nonHubVars == <<nodes, now, tickPending, taskVars, loadDelta, touched, fbCall,
                regVars, pipeVars, streamVars, snapVars, valVars, agentVars, tmplVars, lateVars>>

\* handleWS: the connection is upgraded, the client created with an empty
\* channel and added by hub.register (which takes the write lock).
handleWS(c) ==
  /\ wsPc[c] = "none"
  /\ ~bcast.Active
  /\ clients' = clients \cup {c}
  /\ send' = [send EXCEPT ![c] = <<>>]
  /\ wsPc' = [wsPc EXCEPT ![c] = "registered"]
  /\ UNCHANGED <<replay, sent, bcast, nEvents, known, atStart, nonHubVars>>

\* sendInitialState: nodes := registry.AllNodes().
sendInitialState(c, list) ==
  /\ wsPc[c] = "registered"
  /\ known' = [known EXCEPT ![c] = list]
  /\ replay' = [replay EXCEPT ![c] = ReplayOf(list)]
  /\ wsPc' = [wsPc EXCEPT ![c] = "replay"]
  /\ UNCHANGED <<clients, send, sent, bcast, nEvents, atStart, nonHubVars>>

\* sendInitialState: one select on client.send; after the stats message
\* handleWS starts writePump and readPump.
ReplaySend(c) ==
  /\ wsPc[c] = "replay"
  /\ send' = [send EXCEPT ![c] = TrySend(@, Head(replay[c]))]
  /\ replay' = [replay EXCEPT ![c] = Tail(@)]
  /\ IF Len(replay[c]) = 1
       THEN /\ wsPc' = [wsPc EXCEPT ![c] = "running"]
            /\ atStart' = [atStart EXCEPT ![c] = send'[c]]
       ELSE UNCHANGED <<wsPc, atStart>>
  /\ UNCHANGED <<clients, sent, bcast, nEvents, known, nonHubVars>>

\* writePump: one message is received from c.send and written to the socket.
writePump(c) ==
  /\ wsPc[c] = "running"
  /\ send[c] # <<>>
  /\ Len(sent[c]) < MaxWrites
  /\ sent' = [sent EXCEPT ![c] = Append(@, Receive(send[c]).Msg)]
  /\ send' = [send EXCEPT ![c] = Receive(@).Rest]
  /\ UNCHANGED <<clients, wsPc, replay, bcast, nEvents, known, atStart, nonHubVars>>

\* readPump: ReadMessage fails (the dashboard went away); hub.unregister
\* takes the write lock, removes the client and closes channel and connection.
unregister(c) ==
  /\ wsPc[c] = "running"
  /\ ~bcast.Active
  /\ clients' = clients \ {c}
  /\ wsPc' = [wsPc EXCEPT ![c] = "closed"]
  /\ UNCHANGED <<send, replay, sent, bcast, nEvents, known, atStart, nonHubVars>>

\* An Emit function calls hub.Broadcast(event): the event is serialized and
\* the read lock taken; with no client the call returns at once.
Broadcast ==
  /\ ~bcast.Active
  /\ nEvents < MaxEvents
  /\ nEvents' = nEvents + 1
  /\ bcast' = IF clients = {} THEN NoBroadcast
              ELSE [Active |-> TRUE, Event |-> LiveEvent(nEvents + 1), Left |-> clients]
  /\ UNCHANGED <<clients, send, wsPc, replay, sent, known, atStart, nonHubVars>>

\* Broadcast: one iteration of the loop over h.clients, for client c; after
\* the last client the read lock is released and the call returns.
BroadcastVisit(c) ==
  /\ bcast.Active
  /\ c \in bcast.Left
  /\ SendReady(send[c])
  /\ send' = [send EXCEPT ![c] = TrySend(@, bcast.Event)]
  /\ bcast' = IF bcast.Left = {c} THEN NoBroadcast ELSE [bcast EXCEPT !.Left = @ \ {c}]
  /\ UNCHANGED <<clients, wsPc, replay, sent, nEvents, known, atStart, nonHubVars>>

NextHub ==
  \/ \E c \in NewClients : handleWS(c)
  \/ \E c \in Clients : \E list \in AllNodesLists(nodes) : sendInitialState(c, list)
  \/ \E c \in Clients : ReplaySend(c)
  \/ \E c \in Clients : writePump(c)
  \/ \E c \in Clients : unregister(c)
  \/ Broadcast
  \/ \E c \in Clients : BroadcastVisit(c)

SpecHub == InitHub /\ [][NextHub]_vars

\* The program as main.go runs it (no handler calls an Emit function): the
\* dashboards connect to registries of up to SendCap agents.
InitReplay ==
  /\ InitOutsideHub
  /\ nodes \in HubRegistries
  /\ HubInit

NextReplay ==
  \/ \E c \in Clients : handleWS(c)
  \/ \E c \in Clients : \E list \in AllNodesLists(nodes) : sendInitialState(c, list)
  \/ \E c \in Clients : ReplaySend(c)
  \/ \E c \in Clients : writePump(c)
  \/ \E c \in Clients : unregister(c)

SpecReplay == InitReplay /\ [][NextReplay]_vars

\* ---------------------------------------------------------------------
\* Registry.AllNodes against the mutating methods, with Registry.mu and the
\* single field writes of the methods as steps.
\* ---------------------------------------------------------------------
\* No request handler running.
TaskInit ==
  /\ tickPending = FALSE
  /\ pc = [t \in Tasks |-> "idle"]
  /\ req = [t \in Tasks |-> NoReq]
  /\ tried = [t \in Tasks |-> {}]
  /\ cur = [t \in Tasks |-> NoNode]
  /\ held = [t \in Tasks |-> <<>>]
  /\ ctxDone = [t \in Tasks |-> FALSE]
  /\ result = [t \in Tasks |-> NoResult]
  /\ failed = [t \in Tasks |-> {}]
  /\ suspected = [t \in Tasks |-> {}]
  /\ answer = [t \in Tasks |-> "none"]
  /\ loadDelta = [t \in Tasks |-> [w \in Ids |-> 0]]
  /\ touched = {}
  /\ fbCall = NoCall

\* HeartbeatTimeout after start: no agent yet, or both agents registered at
\* start and silent since.
InitSnapshot ==
  /\ now = HeartbeatTimeout
  /\ nodes \in { <<>>, [id \in Ids |-> RegisterRow(ProfileOf(id), 0)] }
  /\ TaskInit
  /\ RegInit /\ PipeInit /\ StreamInit
  /\ HubInit /\ ValInit /\ AgentInit /\ TmplInit /\ LateInit
  /\ mu = NoLock
  /\ wrPc = NoWriter
  /\ snPc = "idle"
  /\ snLeft = {}
  /\ snList = {}
  /\ snapshot = {}
  /\ committed = <<nodes>>
  /\ snFrom = 0

\* r.mu.Lock() returns when no writer and no reader holds the lock.
CanLock(m) == ~m.Writer /\ m.Readers = 0

\* Variant of the read lock that does not wait for a writer.
CanRLockAlways(m) == TRUE

\* r.mu.RLock() returns when no writer holds the lock.
CanRLock(m) == ~m.Writer

nonSnapVars == <<now, tickPending, taskVars, loadDelta, touched, fbCall,
                 regVars, pipeVars, streamVars, hubVars, valVars, agentVars, tmplVars, lateVars>>

\* The write lock is taken by method op for node id.
LockFor(op, id, count, left) ==
  /\ CanLock(mu)
  /\ wrPc = NoWriter
  /\ Len(committed) <= MaxMutations
  /\ mu' = [mu EXCEPT !.Writer = TRUE]
  /\ wrPc' = [Op |-> op, NodeID |-> id, Count |-> count, Step |-> 1, Left |-> left]

\* The method holding the write lock returns: r.mu.Unlock().
UnlockWith(reg) ==
  /\ nodes' = reg
  /\ mu' = [mu EXCEPT !.Writer = FALSE]
  /\ wrPc' = NoWriter
  /\ committed' = Append(committed, reg)

\* Registry.Register: the lock is taken, the new row stored in the map and
\* the lock released.
RegisterLocked(id, p) ==
  /\ CanLock(mu)
  /\ wrPc = NoWriter
  /\ Len(committed) <= MaxMutations
  /\ nodes' = RegisterNodes(nodes, id, p, now)
  /\ committed' = Append(committed, nodes')
  /\ UNCHANGED <<mu, wrPc, snPc, snLeft, snList, snapshot, snFrom, nonSnapVars>>

\* Registry.Heartbeat for a registered node: r.mu.Lock().
HeartbeatLock(id, count) ==
  /\ id \in DOMAIN nodes
  /\ LockFor("heartbeat", id, count, {})
  /\ UNCHANGED <<nodes, committed, snPc, snLeft, snList, snapshot, snFrom, nonSnapVars>>

\* Registry.Heartbeat: node.LastHeartbeat, node.Status and node.ActiveTasks
\* are assigned one after the other.
HeartbeatWrite ==
  /\ wrPc.Op = "heartbeat"
  /\ LET id == wrPc.NodeID
         status == IF wrPc.Count >= BusyThreshold THEN StatusBusy ELSE StatusIdle
     IN  CASE wrPc.Step = 1 ->
                /\ nodes' = [nodes EXCEPT ![id].LastHeartbeat = now]
                /\ wrPc' = [wrPc EXCEPT !.Step = 2]
                /\ UNCHANGED <<mu, committed>>
           [] wrPc.Step = 2 ->
                /\ nodes' = [nodes EXCEPT ![id].Status = status]
                /\ wrPc' = [wrPc EXCEPT !.Step = 3]
                /\ UNCHANGED <<mu, committed>>
           [] OTHER ->
                UnlockWith([nodes EXCEPT ![id].ActiveTasks = wrPc.Count])
  /\ UNCHANGED <<snPc, snLeft, snList, snapshot, snFrom, nonSnapVars>>

\* Registry.IncrementLoad for a registered node: r.mu.Lock().
IncrementLock(id) ==
  /\ id \in DOMAIN nodes
  /\ LockFor("increment_load", id, 0, {})
  /\ UNCHANGED <<nodes, committed, snPc, snLeft, snList, snapshot, snFrom, nonSnapVars>>

\* Registry.IncrementLoad: node.ActiveTasks++, then the status.
IncrementWrite ==
  /\ wrPc.Op = "increment_load"
  /\ LET id == wrPc.NodeID
     IN  IF wrPc.Step = 1
           THEN /\ nodes' = [nodes EXCEPT ![id].ActiveTasks = @ + 1]
                /\ wrPc' = [wrPc EXCEPT !.Step = 2]
                /\ UNCHANGED <<mu, committed>>
           ELSE UnlockWith([nodes EXCEPT ![id].Status =
                              IF nodes[id].ActiveTasks >= BusyThreshold THEN StatusBusy ELSE @])
  /\ UNCHANGED <<snPc, snLeft, snList, snapshot, snFrom, nonSnapVars>>

\* evictLoop: the ticker fired, r.mu.Lock().
EvictLock ==
  /\ DOMAIN nodes # {}
  /\ LockFor("evict", NoNode, 0, DOMAIN nodes)
  /\ UNCHANGED <<nodes, committed, snPc, snLeft, snList, snapshot, snFrom, nonSnapVars>>

\* evictLoop: the loop body for row id; after the last row r.mu.Unlock().
EvictWrite(id) ==
  /\ wrPc.Op = "evict"
  /\ id \in wrPc.Left
  /\ LET reg == [nodes EXCEPT ![id] = EvictRow(@, now)]
     IN  IF wrPc.Left = {id}
           THEN UnlockWith(reg)
           ELSE /\ nodes' = reg
                /\ wrPc' = [wrPc EXCEPT !.Left = @ \ {id}]
                /\ UNCHANGED <<mu, committed>>
  /\ UNCHANGED <<snPc, snLeft, snList, snapshot, snFrom, nonSnapVars>>

\* handleStatus calls registry.AllNodes().
AllNodesCall ==
  /\ snPc = "idle"
  /\ snPc' = "waiting"
  /\ snFrom' = Len(committed)
  /\ UNCHANGED <<nodes, mu, wrPc, snLeft, snList, snapshot, committed, nonSnapVars>>

\* AllNodes: r.mu.RLock(); list := make(...).
AllNodesRLock ==
  /\ snPc = "waiting"
  /\ CanRLock(mu)
  /\ mu' = [mu EXCEPT !.Readers = @ + 1]
  /\ snLeft' = DOMAIN nodes
  /\ snList' = {}
  /\ snPc' = "copying"
  /\ UNCHANGED <<nodes, wrPc, snapshot, committed, snFrom, nonSnapVars>>

\* AllNodes: copy := *n; list = append(list, &copy) for row id.
AllNodesCopy(id) ==
  /\ snPc = "copying"
  /\ id \in snLeft
  /\ snList' = snList \cup {[NodeID |-> id, Info |-> nodes[id]]}
  /\ snLeft' = snLeft \ {id}
  /\ UNCHANGED <<nodes, mu, wrPc, snPc, snapshot, committed, snFrom, nonSnapVars>>

\* AllNodes: return list; the deferred r.mu.RUnlock() runs.
AllNodesReturn ==
  /\ snPc = "copying"
  /\ snLeft = {}
  /\ snapshot' = snList
  /\ mu' = [mu EXCEPT !.Readers = @ - 1]
  /\ snPc' = "returned"
  /\ UNCHANGED <<nodes, wrPc, snLeft, snList, committed, snFrom, nonSnapVars>>

NextSnapshot ==
  \/ \E id \in Ids : \E p \in Profiles(id) : RegisterLocked(id, p)
  \/ \E id \in Ids : \E c \in ReportCounts : HeartbeatLock(id, c)
  \/ HeartbeatWrite
  \/ \E id \in Ids : IncrementLock(id)
  \/ IncrementWrite
  \/ EvictLock
  \/ \E id \in Ids : EvictWrite(id)
  \/ AllNodesCall
  \/ AllNodesRLock
  \/ \E id \in Ids : AllNodesCopy(id)
  \/ AllNodesReturn

SpecSnapshot == InitSnapshot /\ [][NextSnapshot]_vars

\* ---------------------------------------------------------------------
\* Request validation: POST /task, POST /register and POST /pipeline with
\* the fields the handlers test.
\* ---------------------------------------------------------------------
\* The bodies clients POST to /task: with and without a prompt.
TaskBodies ==
  { [Prompt |-> p, Type |-> r.Type, ModelHint |-> r.ModelHint] :
      p \in {"", "Say only: hello"}, r \in Requests }

\* The bodies POSTed to /register: an agent's request, or one without node_id.
RegisterBodies ==
  { [NodeID |-> id, Models |-> ProfileOf(id).Models, Capabilities |-> ProfileOf(id).Capabilities] :
      id \in Ids }
    \cup { [NodeID |-> "", Models |-> ProfileB.Models, Capabilities |-> ProfileB.Capabilities] }

\* Variant of handleTask without the test of the prompt.
PromptMissingNever(body) == FALSE

\* handleTask: req.Prompt == "".
PromptMissing(body) == body.Prompt = ""

\* handleRegister: req.NodeID == "".
NodeIDMissing(body) == body.NodeID = ""

nonValVars == <<streamVars, hubVars, snapVars, agentVars, tmplVars, lateVars>>

\* handleTask from the decoded body: 400 for an empty prompt, otherwise the
\* context is opened and routeWithFailover called.
handleTaskPost(self, body) ==
  /\ pc[self] = "idle"
  /\ plPc = "idle"
  /\ IF PromptMissing(body)
       THEN /\ httpLog' = httpLog \cup {[Endpoint |-> "task", NodeID |-> "",
                                           Prompt |-> body.Prompt, Code |-> 400]}
            /\ UNCHANGED <<pc, req>>
       ELSE /\ httpLog' = httpLog \cup {[Endpoint |-> "task", NodeID |-> "",
                                           Prompt |-> body.Prompt, Code |-> 0]}
            /\ pc' = [pc EXCEPT ![self] = "select"]
            /\ req' = [req EXCEPT ![self] = [Type |-> body.Type, ModelHint |-> body.ModelHint]]
  /\ UNCHANGED <<nodes, now, tickPending, tried, cur, held, ctxDone, result,
                 failed, suspected, answer, loadDelta, touched, fbCall,
                 regVars, pipeVars, nonValVars>>

\* handleRegister from the decoded body: 400 for an empty node_id, otherwise
\* registry.Register(req) and 200.
handleRegisterPost(body) ==
  /\ IF NodeIDMissing(body)
       THEN /\ httpLog' = httpLog \cup {[Endpoint |-> "register", NodeID |-> body.NodeID,
                                           Prompt |-> "", Code |-> 400]}
            /\ UNCHANGED <<nodes, lastOp>>
       ELSE /\ httpLog' = httpLog \cup {[Endpoint |-> "register", NodeID |-> body.NodeID,
                                           Prompt |-> "", Code |-> 200]}
            /\ nodes' = RegisterNodes(nodes, body.NodeID, body, now)
            /\ lastOp' = [Name |-> "register", NodeID |-> body.NodeID, Models |-> body.Models,
                          Capabilities |-> body.Capabilities, At |-> now,
                          Before |-> RowBefore(nodes, body.NodeID)]
  /\ UNCHANGED <<now, tickPending, taskVars, loadDelta, touched, fbCall, pending,
                 pipeVars, nonValVars>>

\* The bodies clients POST to /pipeline: no step or one step, with and
\* without initial_input.
PipelineBodies ==
  [PipelineID : {""}, InitialInput : {<<>>, <<"input">>},
   Steps : {<<>>} \cup {<<k>> : k \in StepKinds}]

\* The requests arrive once the agents have registered; a client sends a
\* task or a pipeline.
NextValidate ==
  \/ /\ plPc = "idle"
     /\ \A t \in Tasks : pc[t] = "idle"
     /\ \E b \in RegisterBodies : handleRegisterPost(b)
  \/ \E t \in Tasks : \E b \in TaskBodies : handleTaskPost(t, b)
  \/ \E t \in Tasks : \E r \in PipelineBodies : \E u \in Uuids : handlePipeline(t, r, u)
  \/ \E t \in Tasks : \E o \in Orders(DOMAIN nodes) : FindBestNodeExcluding(t, o)
  \/ \E t \in Tasks : RouteIncrementLoad(t)
  \/ \E t \in Tasks : \E a \in {"ok", "fail", "err"} : forwardTask(t, a)
  \/ \E t \in Tasks : RouteMarkSuspect(t)
  \/ \E t \in Tasks : RouteDecrementLoad(t)
  \/ \E t \in Tasks : \E c \in Contents : ExecutePipelineStep(t, c)

SpecValidate == Init /\ [][NextValidate]_vars

\* ---------------------------------------------------------------------
\* The node-agent's side: registerWithRetry and heartbeatLoop against an
\* orchestrator that can be restarted (its registry starts empty).
\* ---------------------------------------------------------------------
\* What postJSON to /heartbeat ends with: the status code of the response,
\* or TransportError when client.Post itself fails (no response).
TransportError == -1

HeartbeatOutcome(up, reg, id) ==
  IF ~up THEN TransportError
  ELSE IF HeartbeatKnown(reg, id) THEN 200
  ELSE 404

\* Variant of heartbeatLoop that registers again only after a transport error.
ReRegisterOnTransportErrorOnly(outcome) == outcome = TransportError

\* heartbeatLoop: err != nil; postJSON returns an error for a transport
\* failure and for every status >= 400.
NeedsReRegister(outcome) == outcome = TransportError \/ outcome >= 400

nonAgentVars == <<now, tickPending, taskVars, loadDelta, touched, fbCall,
                  regVars, pipeVars, streamVars, hubVars, snapVars, valVars, tmplVars, lateVars>>

\* registerWithRetry: POST /register succeeds (while the orchestrator is
\* down the loop sleeps and tries again); heartbeatLoop goes on.
AgentRegister(id) ==
  /\ agPc[id] = "register"
  /\ orchUp
  /\ nodes' = RegisterNodes(nodes, id, ProfileOf(id), now)
  /\ agPc' = [agPc EXCEPT ![id] = "beat"]
  /\ UNCHANGED <<orchUp, restarts, hbCode, nonAgentVars>>

\* heartbeatLoop: the ticker fires, the heartbeat is POSTed with the agent's
\* task count; on an error registerWithRetry is called.
AgentHeartbeat(id, count) ==
  /\ agPc[id] = "beat"
  /\ LET status  == IF count >= BusyThreshold THEN StatusBusy ELSE StatusIdle
         outcome == HeartbeatOutcome(orchUp, nodes, id)
     IN  /\ nodes' = IF orchUp THEN HeartbeatNodes(nodes, id, status, count, now) ELSE nodes
         /\ hbCode' = [hbCode EXCEPT ![id] =
                         [Last |-> outcome, Seen404 |-> @.Seen404 \/ outcome = 404]]
         /\ agPc' = [agPc EXCEPT ![id] = IF NeedsReRegister(outcome) THEN "register" ELSE "beat"]
  /\ UNCHANGED <<orchUp, restarts, nonAgentVars>>

\* The orchestrator process is stopped: its registry is lost.
OrchestratorStop ==
  /\ orchUp
  /\ restarts < MaxRestarts
  /\ orchUp' = FALSE
  /\ restarts' = restarts + 1
  /\ nodes' = << >>
  /\ UNCHANGED <<agPc, hbCode, nonAgentVars>>

\* The orchestrator is started again: NewRegistry(), ListenAndServe.
OrchestratorStart ==
  /\ ~orchUp
  /\ orchUp' = TRUE
  /\ UNCHANGED <<nodes, agPc, restarts, hbCode, nonAgentVars>>

NextAgent ==
  \/ \E id \in Ids : AgentRegister(id)
  \/ \E id \in Ids : \E c \in ReportCounts : AgentHeartbeat(id, c)
  \/ OrchestratorStop
  \/ OrchestratorStart

SpecAgent == Init /\ [][NextAgent]_vars

\* The agents' loops keep running (3 s ticker, 3 s retry sleep) and a stopped
\* orchestrator is started again.
SpecAgentFair ==
  /\ SpecAgent
  /\ \A id \in Ids : WF_vars(AgentRegister(id))
  /\ \A id \in Ids : WF_vars(\E c \in ReportCounts : AgentHeartbeat(id, c))
  /\ WF_vars(OrchestratorStart)

\* ---------------------------------------------------------------------
\* resolveTemplate on its own: one call with arguments drawn from bounded
\* sets, and a second call on the first call's result with the same bindings.
\* ---------------------------------------------------------------------
\* The pieces templates are made of: braces, text and the three placeholders.
TemplateParts ==
  { <<"{{">>, <<"}}">>, <<"text ">>, PrevOutputVar, InitialInputVar, StepIndexVar }

RECURSIVE Concat(_)
Concat(parts) == IF parts = <<>> THEN <<>> ELSE Head(parts) \o Concat(Tail(parts))

Templates == { Concat(parts) : parts \in UNION { [1..n -> TemplateParts] : n \in 0..MaxParts } }

\* Outputs of the previous step: empty, plain, with a placeholder, with the
\* beginning of one.
PrevOutputs == { <<>>, <<"out">>, <<"see ">> \o InitialInputVar, <<"{{", "prev_output">> }

\* Initial inputs (never empty, handlePipeline): plain, the name of a
\* variable as text, a placeholder.
InitialInputs == { <<"input">>, <<"prev_output">>, PrevOutputVar }

TemplateCalls ==
  [Template : Templates, Prev : PrevOutputs, InitialInput : InitialInputs,
   StepIndex : 0..(MaxSteps - 1)]

InitTemplate ==
  /\ nodes = << >>
  /\ now = 0
  /\ TaskInit
  /\ RegInit /\ PipeInit /\ StreamInit
  /\ HubInit /\ SnapInit /\ ValInit /\ AgentInit /\ LateInit
  /\ tmplIn \in TemplateCalls
  /\ tmplOuts = <<>>

nonTmplVars == <<nodes, now, tickPending, taskVars, loadDelta, touched, fbCall,
                 regVars, pipeVars, streamVars, hubVars, snapVars, valVars, agentVars, lateVars>>

\* resolveTemplate(tmpl, prevOutput, initialInput, stepIndex)
ResolveCall ==
  /\ tmplOuts = <<>>
  /\ tmplOuts' = <<resolveTemplate(tmplIn.Template, tmplIn.Prev, tmplIn.InitialInput,
                                   tmplIn.StepIndex)>>
  /\ UNCHANGED <<tmplIn, nonTmplVars>>

\* resolveTemplate called on the prompt the first call returned.
ResolveAgain ==
  /\ Len(tmplOuts) = 1
  /\ tmplOuts' = Append(tmplOuts,
                        resolveTemplate(tmplOuts[1], tmplIn.Prev, tmplIn.InitialInput,
                                        tmplIn.StepIndex))
  /\ UNCHANGED <<tmplIn, nonTmplVars>>

NextTemplate == ResolveCall \/ ResolveAgain

SpecTemplate == InitTemplate /\ [][NextTemplate]_vars

\* ---------------------------------------------------------------------
\* Where forwards go: forwardTask and forwardTaskStream build their URL from
\* the row of the selected node; the agents listen at the host and port of
\* their Config.  POST /task and POST /task/stream are taken as one step each.
\* ---------------------------------------------------------------------
\* The deployments: no two agents listen at the same host and port.
AgentConfigs ==
  { c \in [Ids -> [AgentHost : Hosts, AgentPort : AgentPorts]] :
      \A v, w \in Ids : v # w => c[v] # c[w] }

\* "localhost" in a URL the orchestrator requests is the orchestrator's host.
Resolve(host) == IF host = "localhost" THEN OrchHost ELSE host

\* fmt.Sprintf("http://localhost:%d/execute", node.AgentPort)
ForwardURL(port) == [Host |-> "localhost", Port |-> port]

\* The agent whose server is reached by a request to url (NoNode: none); an
\* agent starts its server when registerWithRetry has returned.
ListenerAt(url) ==
  LET ws == { w \in DOMAIN agentPort :
                          /\ agentCfg[w].AgentHost = Resolve(url.Host)
                          /\ agentCfg[w].AgentPort = url.Port }
  IN  IF ws = {} THEN NoNode ELSE CHOOSE w \in ws : TRUE

ForwardOf(kind, node) ==
  LET url == ForwardURL(agentPort[node])
  IN  [Kind |-> kind, Node |-> node, Host |-> url.Host, Port |-> url.Port,
       ExecutedBy |-> ListenerAt(url)]

\* routeWithFailover with the network as it is: a forward to a URL nobody
\* listens at fails, the node is marked suspect and the next one is tried; the
\* deferred DecrementLoad of a frame runs when the frame returns.
RECURSIVE RouteForwards(_, _, _, _)
RouteForwards(reg, order, r, exclude) ==
  LET node == findBest(reg, now, order, r.Type, r.ModelHint, exclude)
  IN  IF node = NoNode THEN [Reg |-> reg, Forwards |-> {}, RoutedTo |-> NoNode]
      ELSE LET f   == ForwardOf("unary", node)
               inc == IncrementLoad(reg, node)
           IN  IF f.ExecutedBy = NoNode
                 THEN LET rest == RouteForwards(MarkSuspect(inc, node), order, r,
                                                exclude \cup {node})
                      IN  [Reg |-> DecrementLoad(rest.Reg, node),
                           Forwards |-> rest.Forwards \cup {f},
                           RoutedTo |-> rest.RoutedTo]
                 ELSE [Reg |-> DecrementLoad(inc, node), Forwards |-> {f}, RoutedTo |-> node]

InitForward ==
  /\ nodes = << >>
  /\ now = 0
  /\ TaskInit
  /\ RegInit /\ PipeInit /\ StreamInit
  /\ HubInit /\ SnapInit /\ ValInit /\ AgentInit /\ TmplInit /\ CancelInit /\ LoadInit /\ ConcInit
  /\ agentCfg \in AgentConfigs
  /\ agentPort = << >>
  /\ fwdLog = {}

nonFwdVars == <<now, tickPending, taskVars, loadDelta, touched, fbCall,
                regVars, pipeVars, streamVars, hubVars, snapVars, valVars, agentVars, tmplVars,
                cancelVars, loadVars, concVars>>

\* registerWithRetry of agent id and handleRegister: the row is created with
\* the AgentPort of the request.
ForwardRegister(id) ==
  /\ nodes' = RegisterNodes(nodes, id, ProfileOf(id), now)
  /\ agentPort' = [w \in DOMAIN agentPort \cup {id} |->
                     IF w = id THEN agentCfg[id].AgentPort ELSE agentPort[w]]
  /\ UNCHANGED <<agentCfg, fwdLog, nonFwdVars>>

\* POST /task: handleTask, routeWithFailover, forwardTask.
ForwardUnary(r, order) ==
  /\ LET out == RouteForwards(nodes, order, r, {})
     IN  /\ out.Forwards # {}
         /\ nodes' = out.Reg
         /\ fwdLog' = fwdLog \cup out.Forwards
  /\ UNCHANGED <<agentCfg, agentPort, nonFwdVars>>

\* POST /task/stream: handleTaskStream, forwardTaskStream.
ForwardStream(r, order) ==
  /\ LET node == FindBestNode(nodes, now, order, r.Type, r.ModelHint)
     IN  /\ node # NoNode
         /\ nodes' = DecrementLoad(IncrementLoad(nodes, node), node)
         /\ fwdLog' = fwdLog \cup {ForwardOf("stream", node)}
  /\ UNCHANGED <<agentCfg, agentPort, nonFwdVars>>

NextForward ==
  \/ \E id \in Ids : ForwardRegister(id)
  \/ \E r \in Requests : \E o \in Orders(DOMAIN nodes) : ForwardUnary(r, o)
  \/ \E r \in Requests : \E o \in Orders(DOMAIN nodes) : ForwardStream(r, o)

SpecForward == InitForward /\ [][NextForward]_vars

\* ---------------------------------------------------------------------
\* POST /pipeline with a request context that can be cancelled
\* ---------------------------------------------------------------------
\* The client of the pipeline disconnects or the pipeline's timeout expires
\* while ExecutePipeline runs: ctx, which every step's routeWithFailover is
\* called with, is done.
PipelineCancel(self) ==
  /\ plPc = "step"
  /\ ~ctxDone[self]
  /\ ctxDone' = [ctxDone EXCEPT ![self] = TRUE]
  /\ plCancelAt' = <<IF pc[self] = "done" THEN Len(taskReqs) ELSE Len(taskReqs) - 1>>
  /\ UNCHANGED <<nodes, now, tickPending, pc, req, tried, cur, held, result,
                 failed, suspected, answer, loadDelta, touched, fbCall,
                 regVars, pipeVars, streamVars, hubVars, snapVars, valVars, agentVars,
                 tmplVars, fwdVars, loadVars, concVars>>

NextPipelineCancel ==
  \/ NextPipeline
  \/ \E t \in Tasks : PipelineCancel(t)

SpecPipelineCancel == Init /\ [][NextPipelineCancel]_vars

\* ---------------------------------------------------------------------
\* Load accounting with concurrent requests: a unary task, a pipeline step
\* (both routeWithFailover) and a streaming task (handleTaskStream) run at
\* the same time; each Registry call is one step (Registry.mu).
\* ---------------------------------------------------------------------
nonLoadVars == <<now, tickPending, taskVars, loadDelta, fbCall,
                 regVars, pipeVars, streamVars, hubVars, snapVars, valVars, agentVars, tmplVars,
                 fwdVars, cancelVars, concVars>>

\* POST /register.
LoadRegister(id) ==
  /\ nodes' = RegisterNodes(nodes, id, ProfileOf(id), now)
  /\ touched' = IF id \in DOMAIN nodes THEN touched \cup {id} ELSE touched
  /\ ldOld' = [h \in LoadRequests |->
                 ldOld[h] \cup {i \in 1..Len(ldHeld[h]) : ldHeld[h][i] = id}]
  /\ UNCHANGED <<ldPc, ldCur, ldHeld, ldTried, nonLoadVars>>

\* POST /heartbeat of an agent that counts no task of its own.
LoadHeartbeat(id, count) ==
  /\ HeartbeatKnown(nodes, id)
  /\ LET status == IF count >= BusyThreshold THEN StatusBusy ELSE StatusIdle
     IN  nodes' = HeartbeatNodes(nodes, id, status, count, now)
  /\ touched' = touched \cup {id}
  /\ UNCHANGED <<ldPc, ldCur, ldHeld, ldTried, ldOld, nonLoadVars>>

\* The request arrives; its handler is about to select a node.
LoadStart(h) ==
  /\ ldPc[h] = "idle"
  /\ ldPc' = [ldPc EXCEPT ![h] = "select"]
  /\ ldTried' = [ldTried EXCEPT ![h] = {}]
  /\ ldCur' = [ldCur EXCEPT ![h] = NoNode]
  /\ UNCHANGED <<nodes, touched, ldHeld, ldOld, nonLoadVars>>

\* registry.FindBestNodeExcluding (routeWithFailover) or registry.FindBestNode
\* (handleTaskStream); without a candidate the frames return.
LoadSelect(h, order) ==
  /\ ldPc[h] = "select"
  /\ LET node == findBest(nodes, now, order, TaskTypeAny, "", ldTried[h])
     IN  IF node = NoNode
           THEN /\ ldPc' = [ldPc EXCEPT ![h] = IF ldHeld[h] = << >> THEN "idle" ELSE "unwind"]
                /\ ldCur' = ldCur
           ELSE /\ ldPc' = [ldPc EXCEPT ![h] = "inc"]
                /\ ldCur' = [ldCur EXCEPT ![h] = node]
  /\ UNCHANGED <<nodes, touched, ldHeld, ldTried, ldOld, nonLoadVars>>

\* registry.IncrementLoad(node.NodeID); defer registry.DecrementLoad(node.NodeID)
LoadIncrement(h) ==
  /\ ldPc[h] = "inc"
  /\ nodes' = IncrementLoad(nodes, ldCur[h])
  /\ ldHeld' = [ldHeld EXCEPT ![h] = Append(@, ldCur[h])]
  /\ ldPc' = [ldPc EXCEPT ![h] = "forward"]
  /\ UNCHANGED <<touched, ldCur, ldTried, ldOld, nonLoadVars>>

\* The forward returns. After an error routeWithFailover marks the node
\* suspect and selects again; handleTaskStream returns.
LoadForward(h, ok) ==
  /\ ldPc[h] = "forward"
  /\ IF ok \/ h = "stream"
       THEN /\ ldPc' = [ldPc EXCEPT ![h] = "unwind"]
            /\ UNCHANGED <<nodes, ldTried>>
       ELSE /\ ldTried' = [ldTried EXCEPT ![h] = @ \cup {ldCur[h]}]
            /\ nodes' = MarkSuspect(nodes, ldCur[h])
            /\ ldPc' = [ldPc EXCEPT ![h] = "select"]
  /\ UNCHANGED <<touched, ldCur, ldHeld, ldOld, nonLoadVars>>

\* A frame returns: its deferred registry.DecrementLoad runs.
LoadRelease(h) ==
  /\ ldPc[h] = "unwind"
  /\ LET n == Len(ldHeld[h])
     IN  /\ nodes' = DecrementLoad(nodes, ldHeld[h][n])
         /\ ldHeld' = [ldHeld EXCEPT ![h] = SubSeq(@, 1, n - 1)]
         /\ ldPc' = [ldPc EXCEPT ![h] = IF n = 1 THEN "idle" ELSE "unwind"]
         /\ ldOld' = [ldOld EXCEPT ![h] = @ \ {n}]
         /\ ldCur' = IF n = 1 THEN [ldCur EXCEPT ![h] = NoNode] ELSE ldCur
         /\ ldTried' = IF n = 1 THEN [ldTried EXCEPT ![h] = {}] ELSE ldTried
  /\ UNCHANGED <<touched, nonLoadVars>>

NextLoad ==
  \/ \E id \in Ids : LoadRegister(id)
  \/ \E id \in Ids : LoadHeartbeat(id, 0)
  \/ \E h \in LoadRequests : LoadStart(h)
  \/ \E h \in LoadRequests : \E o \in Orders(DOMAIN nodes) : LoadSelect(h, o)
  \/ \E h \in LoadRequests : LoadIncrement(h)
  \/ \E h \in LoadRequests : \E ok \in BOOLEAN : LoadForward(h, ok)
  \/ \E h \in LoadRequests : LoadRelease(h)

SpecLoad == Init /\ [][NextLoad]_vars

\* The same requests while nodes register again and no heartbeat arrives.
NextReload ==
  \/ \E id \in Ids : LoadRegister(id)
  \/ \E h \in LoadRequests : LoadStart(h)
  \/ \E h \in LoadRequests : \E o \in Orders(DOMAIN nodes) : LoadSelect(h, o)
  \/ \E h \in LoadRequests : LoadIncrement(h)
  \/ \E h \in LoadRequests : \E ok \in BOOLEAN : LoadForward(h, ok)
  \/ \E h \in LoadRequests : LoadRelease(h)

SpecReload == Init /\ [][NextReload]_vars

\* ---------------------------------------------------------------------
\* The event hub with concurrent callers: two request handlers broadcast at
\* the same time while dashboards connect and go away.  EventHub.mu is a
\* sync.RWMutex: Broadcast holds the read lock over its whole loop, register
\* and unregister hold the write lock (one step each).
\* ---------------------------------------------------------------------
nonConcVars == <<nodes, now, tickPending, taskVars, loadDelta, touched, fbCall,
                 regVars, pipeVars, streamVars, hubVars, snapVars, valVars, agentVars, tmplVars,
                 fwdVars, cancelVars, loadVars>>

\* The event broadcaster b gives to hub.Broadcast.
EventOf(b) == IF b = "b1" THEN LiveEvent(1) ELSE LiveEvent(2)

\* The broadcasters inside the loop of Broadcast hold the read lock.
RLockHolders == {b \in Broadcasters : hcB[b].Pc = "loop"}

\* Variant of h.mu.Lock() that does not wait for the readers.
LockWithoutWaiting(readers) == TRUE

\* h.mu.Lock() returns when no reader holds the mutex.
HubCanLock(readers) == readers = {}

\* client.send <- data inside a select with default: a send on a closed
\* channel is chosen and panics; otherwise the message is enqueued when there
\* is room.
ConcSend(c, msg) ==
  /\ hcSend' = [hcSend EXCEPT ![c] = IF hcClosed[c] > 0 THEN @ ELSE TrySend(@, msg)]
  /\ hcOnClosed' = IF hcClosed[c] > 0 THEN hcOnClosed \cup {c} ELSE hcOnClosed

\* handleWS: the client is created and hub.register adds it under the write
\* lock; sendInitialState reads registry.AllNodes().
ConcRegister(c, list) ==
  /\ hcPc[c] = "none"
  /\ HubCanLock(RLockHolders)
  /\ hcClients' = hcClients \cup {c}
  /\ hcReplay' = [hcReplay EXCEPT ![c] = ReplayOf(list)]
  /\ hcPc' = [hcPc EXCEPT ![c] = "registered"]
  /\ UNCHANGED <<hcSend, hcSent, hcClosed, hcCalls, hcOnClosed, hcB, nonConcVars>>

\* sendInitialState: one select on client.send, without the hub's lock; after
\* the stats message handleWS starts writePump and readPump.
ConcReplaySend(c) ==
  /\ hcPc[c] = "registered"
  /\ ConcSend(c, Head(hcReplay[c]))
  /\ hcReplay' = [hcReplay EXCEPT ![c] = Tail(@)]
  /\ hcPc' = [hcPc EXCEPT ![c] = IF Len(hcReplay[c]) = 1 THEN "running" ELSE @]
  /\ UNCHANGED <<hcClients, hcSent, hcClosed, hcCalls, hcB, nonConcVars>>

\* writePump: one message is received from c.send and written to the socket;
\* a closed channel still hands out what it buffers.
ConcWritePump(c) ==
  /\ hcPc[c] \in {"running", "terminated"}
  /\ hcSend[c] # <<>>
  /\ Len(hcSent[c]) < MaxWrites
  /\ hcSent' = [hcSent EXCEPT ![c] = Append(@, Receive(hcSend[c]).Msg)]
  /\ hcSend' = [hcSend EXCEPT ![c] = Receive(@).Rest]
  /\ UNCHANGED <<hcPc, hcClients, hcReplay, hcClosed, hcCalls, hcOnClosed, hcB, nonConcVars>>

\* readPump: ReadMessage fails and the loop ends; the deferred
\* hub.unregister(c) has still to run.
readPump(c) ==
  /\ hcPc[c] = "running"
  /\ hcPc' = [hcPc EXCEPT ![c] = "terminated"]
  /\ UNCHANGED <<hcClients, hcSend, hcReplay, hcSent, hcClosed, hcCalls, hcOnClosed, hcB, nonConcVars>>

\* The body of unregister under the write lock: a client still in h.clients
\* is deleted and its channel closed.
UnregisterBody(c) ==
  IF c \in hcClients
    THEN /\ hcClients' = hcClients \ {c}
         /\ hcClosed' = [hcClosed EXCEPT ![c] = @ + 1]
    ELSE UNCHANGED <<hcClients, hcClosed>>

\* hub.unregister(c): the call deferred by readPump, and any further call for
\* the same client.
ConcUnregister(c) ==
  /\ hcPc[c] = "terminated"
  /\ hcCalls[c] < MaxUnregisters
  /\ HubCanLock(RLockHolders)
  /\ UnregisterBody(c)
  /\ hcCalls' = [hcCalls EXCEPT ![c] = @ + 1]
  /\ UNCHANGED <<hcPc, hcSend, hcReplay, hcSent, hcOnClosed, hcB, nonConcVars>>

\* hub.Broadcast(event): h.mu.RLock(); the loop ranges over h.clients.
BroadcastRLock(b) ==
  /\ hcB[b].Pc = "idle"
  /\ hcB' = [hcB EXCEPT ![b] = IF hcClients = {} THEN [Pc |-> "done", Left |-> {}]
                                ELSE [Pc |-> "loop", Left |-> hcClients]]
  /\ UNCHANGED <<hcPc, hcClients, hcSend, hcReplay, hcSent, hcClosed, hcCalls, hcOnClosed, nonConcVars>>

\* One iteration of the loop of Broadcast, for client c (a map is ranged over
\* in any order); after the last client the read lock is released.
BroadcastSend(b, c) ==
  /\ hcB[b].Pc = "loop"
  /\ c \in hcB[b].Left
  /\ ConcSend(c, EventOf(b))
  /\ hcB' = [hcB EXCEPT ![b] = IF hcB[b].Left = {c} THEN [Pc |-> "done", Left |-> {}]
                                ELSE [Pc |-> "loop", Left |-> hcB[b].Left \ {c}]]
  /\ UNCHANGED <<hcPc, hcClients, hcReplay, hcSent, hcClosed, hcCalls, nonConcVars>>

\* A hub in service without connections; no agent or one agent registered.
InitHubConc ==
  /\ InitOutsideHub
  /\ HubInit
  /\ \E n \in {0, 1} :
       nodes = [id \in {HubWorkerList(n)[i] : i \in 1..n} |-> RegisterRow(ProfileB, 0)]

NextHubConc ==
  \/ \E c \in Clients : \E list \in AllNodesLists(nodes) : ConcRegister(c, list)
  \/ \E c \in Clients : ConcReplaySend(c)
  \/ \E c \in Clients : ConcWritePump(c)
  \/ \E c \in Clients : readPump(c)
  \/ \E c \in Clients : ConcUnregister(c)
  \/ \E b \in Broadcasters : BroadcastRLock(b)
  \/ \E b \in Broadcasters : \E c \in Clients : BroadcastSend(b, c)

SpecHubConc == InitHubConc /\ [][NextHubConc]_vars

\* ---------------------------------------------------------------------
\* Properties of findBest (checked under SpecFindBest)
\* ---------------------------------------------------------------------
Called == fbCall # NoCall

\* The workers findBest may consider, and the tier each belongs to.
CandidateSet ==
  { w \in DOMAIN nodes :
      /\ w \notin fbCall.Exclude
      /\ now - nodes[w].LastHeartbeat < HeartbeatTimeout
      /\ nodes[w].Status \notin {StatusOffline, StatusOverloaded} }

Tier1In(cands) ==
  { w \in cands :
      fbCall.ModelHint # "" /\ \E i \in DOMAIN nodes[w].Models : nodes[w].Models[i] = fbCall.ModelHint }

Tier2In(cands) ==
  { w \in cands \ Tier1In(cands) :
      fbCall.Type # TaskTypeAny /\ \E i \in DOMAIN nodes[w].Capabilities :
                                      fbCall.Type \in nodes[w].Capabilities[i].Types }

Tier1Set == Tier1In(CandidateSet)
Tier2Set == Tier2In(CandidateSet)
Tier3Set == CandidateSet \ (Tier1Set \cup Tier2Set)

WinningTier ==
  LET cands == CandidateSet
      tier1 == Tier1In(cands)
      tier2 == Tier2In(cands)
  IN  IF tier1 # {} THEN tier1 ELSE IF tier2 # {} THEN tier2 ELSE cands \ (tier1 \cup tier2)

C2_ReturnedIsEligible ==
  (Called /\ fbCall.Node # NoNode) =>
    /\ fbCall.Node \notin fbCall.Exclude
    /\ nodes[fbCall.Node].Status # StatusOffline
    /\ nodes[fbCall.Node].Status # StatusOverloaded
    /\ now - nodes[fbCall.Node].LastHeartbeat < HeartbeatTimeout

\* A worker was returned while another one was excluded and a third one had a
\* stale heartbeat without having been flipped to offline yet.
C2_Witness ==
  /\ Called
  /\ fbCall.Node # NoNode
  /\ \E w \in DOMAIN nodes : w \in fbCall.Exclude /\ w # fbCall.Node
  /\ \E w \in DOMAIN nodes : /\ w \notin fbCall.Exclude
                             /\ nodes[w].Status = StatusIdle
                             /\ now - nodes[w].LastHeartbeat >= HeartbeatTimeout

\* ---------------------------------------------------------------------
\* Properties of the unary failover path and of the registry (checked under Spec)
\* ---------------------------------------------------------------------
Returned(t) == pc[t] = "done"

\* A step in which task t runs registry.IncrementLoad or a deferred
\* registry.DecrementLoad.
LoadStep(t) ==
  \/ pc[t] = "inc" /\ pc'[t] = "forward"
  \/ pc[t] = "unwind" /\ held'[t] # held[t]

\* One iteration of the eviction loop.
EvictStep == tickPending /\ ~tickPending'

Stale(w) == now - nodes[w].LastHeartbeat >= HeartbeatTimeout

\* C3: once a unary task has returned, none of its load increments is still
\* pending, and on every worker that no heartbeat or re-registration touched
\* the task's increments and decrements changed active_tasks by 0 in total.
C3_NoLoadLeak ==
  \A t \in Tasks :
    Returned(t) =>
      /\ held[t] = <<>>
      /\ \A w \in Ids \ touched : loadDelta[t][w] = 0

\* A task returned after a failover over two untouched workers, both of which
\* are back to the load they had.
C3_Witness ==
  \E t \in Tasks :
    /\ Returned(t)
    /\ failed[t] # {}
    /\ result[t].Success
    /\ (failed[t] \cup {result[t].RoutedTo}) \cap touched = {}
    /\ \A w \in failed[t] \cup {result[t].RoutedTo} : nodes[w].ActiveTasks = 0

\* C4: a worker whose forward failed with a transport error is in the exclusion
\* set at once and has been marked suspect before the next selection; a worker
\* that then answers successfully makes the task return a successful result
\* whose routed_to is that worker, never a failed one.
C4_FailoverToAnsweringWorker ==
  \A t \in Tasks :
    /\ failed[t] \subseteq tried[t]
    /\ pc[t] = "select" => failed[t] \subseteq suspected[t]
    /\ (answer[t] = "ok" /\ pc[t] \in {"unwind", "done"}) =>
         /\ result[t].Success /\ ~result[t].Err
         /\ result[t].RoutedTo = cur[t]
         /\ result[t].RoutedTo \notin failed[t]

\* The first worker failed and another one answered the task.
C4_Witness ==
  \E t \in Tasks :
    /\ Returned(t)
    /\ answer[t] = "ok"
    /\ failed[t] # {}
    /\ failed[t] = suspected[t]
    /\ result[t].RoutedTo \in Ids \ failed[t]

\* C5: a worker answer with success = false is handled like a transport error:
\* the worker is put in the exclusion set and marked suspect, and the task is
\* retried instead of being returned as that worker's result.
C5_WorkerFailureRetried ==
  \A t \in Tasks :
    answer[t] = "fail" =>
      /\ cur[t] \in tried[t]
      /\ pc[t] \in {"suspect", "select"}
      /\ pc[t] = "select" => cur[t] \in suspected[t]

\* C6: a task of type code without model_hint is never dispatched to a worker
\* none of whose capabilities lists code (node-a); when the code-capable
\* worker has failed, the task ends with 503.
C6_NoDispatchToIncapableWorker ==
  \A t \in Tasks :
    (req[t].Type = TaskTypeCode /\ req[t].ModelHint = "" /\ pc[t] # "idle") =>
      /\ cur[t] # NoNode => CanHandle(ProfileOf(cur[t]).Capabilities, TaskTypeCode)
      /\ (Returned(t) /\ "node-b" \in failed[t]) => HttpStatus(t) = 503

\* C7: a task whose model_hint names a model no registered worker lists is not
\* dispatched to any worker and is answered with 503.
C7_UnknownModelHintIs503 ==
  \A t \in Tasks :
    (pc[t] # "idle" /\ req[t].ModelHint # ""
       /\ \A w \in DOMAIN nodes : ~containsModel(nodes[w].Models, req[t].ModelHint)) =>
      /\ cur[t] = NoNode
      /\ Returned(t) => HttpStatus(t) = 503

\* C8: no increment_load or decrement_load changes the status of a worker away
\* from overloaded (the suspect mark stays until a heartbeat or a registration).
C8_SuspectSurvivesLoadCalls ==
  [][ \A t \in Tasks :
        LoadStep(t) =>
          \A w \in DOMAIN nodes :
            nodes[w].Status = StatusOverloaded => nodes'[w].Status = StatusOverloaded ]_vars

\* C9: increment_load and decrement_load leave an offline row entirely unchanged.
C9_LoadCallsLeaveOfflineRows ==
  [][ \A t \in Tasks :
        LoadStep(t) =>
          \A w \in DOMAIN nodes :
            nodes[w].Status = StatusOffline => nodes'[w] = nodes[w] ]_vars

\* C15 (checked under SpecInFlight, where a request is only cancelled while its
\* forward is in flight): once the request is cancelled no worker is selected
\* and none is dispatched to for that task (so none selected later is marked
\* suspect), and when the task returns no load increment is still held.
C15_CancelStopsFailover ==
  [][ \A t \in Tasks :
        ctxDone[t] =>
          /\ ~(pc[t] = "select" /\ pc'[t] = "inc")
          /\ ~(pc[t] = "inc" /\ pc'[t] = "forward")
          /\ (pc'[t] = "done" => held'[t] = <<>>) ]_vars

\* C10 as stated: at every observation a worker is offline if and only if its
\* last heartbeat is at least 15,000 ms old.
C10_OfflineIffStale ==
  \A w \in DOMAIN nodes : (nodes[w].Status = StatusOffline) <=> Stale(w)

\* C10 amended: a worker is offline only if its last heartbeat is at least
\* 15,000 ms old, and right after an iteration of the eviction loop every
\* worker whose last heartbeat is that old is offline.
C10_OfflineOnlyIfStaleAndEvictFlips ==
  /\ [](\A w \in DOMAIN nodes : nodes[w].Status = StatusOffline => Stale(w))
  /\ [][ EvictStep =>
           \A w \in DOMAIN nodes :
             now - nodes'[w].LastHeartbeat >= HeartbeatTimeout
               => nodes'[w].Status = StatusOffline ]_vars

\* The eviction loop has flipped a silent worker to offline while another
\* worker, with a fresh heartbeat, is not offline.
C10_Witness ==
  /\ ~tickPending
  /\ \E w \in DOMAIN nodes : nodes[w].Status = StatusOffline /\ Stale(w)
  /\ \E w \in DOMAIN nodes : nodes[w].Status # StatusOffline /\ ~Stale(w)

\* ---------------------------------------------------------------------
\* Properties of the registry (checked under SpecRegistry / SpecRegistryFair)
\* ---------------------------------------------------------------------
\* The eviction ticker has fired or will fire again within the modelled time.
TickerRuns == tickPending \/ now + EvictInterval <= MaxTime

\* C11: with the eviction ticker running, a registered worker whose last
\* heartbeat is at least 15,000 ms old is eventually offline (unless a heartbeat
\* or a registration makes it fresh again); no step removes a worker id from the
\* registry, and every worker registered before a step is in the AllNodes
\* snapshot taken after it.
C11_SilentWorkerEvictedAndKept ==
  /\ \A w \in Ids :
       (w \in DOMAIN nodes /\ Stale(w) /\ TickerRuns)
         ~> (w \in DOMAIN nodes /\ (nodes[w].Status = StatusOffline \/ ~Stale(w)))
  /\ [][ /\ DOMAIN nodes \subseteq DOMAIN nodes'
         /\ \A w \in DOMAIN nodes : \E s \in AllNodes(nodes') : s.NodeID = w ]_vars

\* The eviction loop has just flipped a silent worker to offline; its row is
\* still in the snapshot.
C11_Witness ==
  /\ lastOp.Name = "evict"
  /\ \E s \in AllNodes(nodes) :
       /\ s.Info.Status = StatusOffline
       /\ now - s.Info.LastHeartbeat >= HeartbeatTimeout

\* A step that is a call of the Registry method `name`.
OpStep(name) == lastOp'.Name = name /\ (lastOp' # lastOp \/ nodes' # nodes)

\* C12: every worker row has active_tasks >= 0, and a decrement_load that
\* found active_tasks = 0 left it at 0.
C12_ActiveTasksNeverNegative ==
  /\ \A w \in DOMAIN nodes : nodes[w].ActiveTasks >= 0
  /\ (lastOp.Name = "decrement_load" /\ lastOp.Before.ActiveTasks = 0)
       => nodes[lastOp.NodeID].ActiveTasks = 0

\* A deferred decrement_load has run on a row whose count a heartbeat or a
\* registration had reset to 0 in the meantime.
C12_Witness ==
  /\ lastOp.Name = "decrement_load"
  /\ lastOp.Before.Present
  /\ lastOp.Before.ActiveTasks = 0
  /\ nodes[lastOp.NodeID].ActiveTasks = 0

\* C13: right after register(info) the registry holds for info's worker_id the
\* row made of the request's fields with active_tasks = 0 and status = idle,
\* whatever the row was before; the step adds no other id and changes no other
\* worker's row.
C13_ReRegisterReplacesRow ==
  /\ [](lastOp.Name = "register" =>
         /\ lastOp.NodeID \in DOMAIN nodes
         /\ nodes[lastOp.NodeID] =
              [Models        |-> lastOp.Models,
               Capabilities  |-> lastOp.Capabilities,
               Status        |-> StatusIdle,
               ActiveTasks   |-> 0,
               LastHeartbeat |-> lastOp.At])
  /\ [][ OpStep("register") =>
           /\ DOMAIN nodes' = DOMAIN nodes \cup {lastOp'.NodeID}
           /\ \A w \in DOMAIN nodes \ {lastOp'.NodeID} : nodes'[w] = nodes[w] ]_vars

\* A worker that was offline with a positive load has registered again with
\* other models than the other, busy, worker.
C13_Witness ==
  /\ lastOp.Name = "register"
  /\ lastOp.Before.Present
  /\ lastOp.Before.Status = StatusOffline
  /\ lastOp.Before.ActiveTasks > 0
  /\ \E w \in DOMAIN nodes \ {lastOp.NodeID} :
       nodes[w].Status = StatusBusy /\ nodes[w].Models # lastOp.Models

\* C14: a heartbeat for a worker_id that is not in the registry is answered
\* 404 'unknown node, please re-register', creates no row and leaves every
\* row unchanged.
C14_UnknownHeartbeatIs404 ==
  [][ (OpStep("heartbeat") /\ lastOp'.NodeID \notin DOMAIN nodes) =>
        /\ lastOp'.Code = 404
        /\ lastOp'.Body = "unknown node, please re-register"
        /\ nodes' = nodes ]_vars

\* An unregistered worker got 404 for its heartbeat while another worker,
\* registered and loaded, kept its row.
C14_Witness ==
  /\ lastOp.Name = "heartbeat"
  /\ lastOp.Code = 404
  /\ lastOp.NodeID \notin DOMAIN nodes
  /\ \E w \in DOMAIN nodes : nodes[w].ActiveTasks > 0

\* ---------------------------------------------------------------------
\* Properties of the pipeline engine (checked under SpecPipeline)
\* ---------------------------------------------------------------------
\* The prompt a step of the given template must be sent with.
ExpectedPrompt(tmpl, prev, initialInput, k) ==
  IF tmpl = <<>> THEN prev
  ELSE IF tmpl = <<"Summarize: ">> \o PrevOutputVar THEN <<"Summarize: ">> \o prev
  ELSE <<ToString(k)>> \o initialInput

\* C16: when the routing of step i (0-based) of an N-step pipeline returns an
\* error, the PipelineResult has success = false, an empty final_output, an
\* error starting with 'step {i+1} failed', total_steps = N and i+1 step
\* results, the first i successful and the last failed, and the response is
\* 500; after that no task request is built and no worker selected or
\* dispatched to.
C16_FailedStepAbortsPipeline ==
  /\ [](\A t \in Tasks :
         (plPc = "done" /\ taskReqs # <<>> /\ result[t].Err) =>
           LET i == Len(taskReqs) - 1
           IN  /\ ~plResult.Success
               /\ plResult.FinalOutput = <<>>
               /\ Len(plResult.Error) >= 3
               /\ SubSeq(plResult.Error, 1, 3) = <<"step ", ToString(i + 1), " failed: ">>
               /\ plResult.TotalSteps = Len(plReq.Steps)
               /\ Len(plResult.Steps) = i + 1
               /\ \A k \in 1..i : plResult.Steps[k].Success
               /\ ~plResult.Steps[i + 1].Success
               /\ plStatus = 500)
  /\ [][ plPc = "done" => UNCHANGED <<pc, cur, taskReqs, plResult, plStatus>> ]_vars

\* Step 0 of a two-step pipeline failed after a forward error and a failover:
\* step 1 was never built.
C16_Witness ==
  \E t \in Tasks :
    /\ plPc = "done"
    /\ plStatus = 500
    /\ Len(plReq.Steps) = 2
    /\ Len(taskReqs) = 1
    /\ Cardinality(failed[t]) = 2
    /\ Len(plResult.Steps) = 1

\* C17: when the routing of all N steps returned without error, the result has
\* success = true (answered 200) and N step results in step order, step k
\* with step_index k and task_id '{pipeline_id}_step_k', a client-supplied
\* pipeline_id being kept; step 0 was sent the template expanded with
\* prev_output = initial_input, step k > 0 with prev_output = the content of
\* step k-1, an empty template giving prev_output itself; final_output is the
\* content of step N-1.
C17_PipelineThreadsOutputs ==
  \A t \in Tasks :
    (plPc = "done" /\ Len(plReq.Steps) > 0 /\ Len(taskReqs) = Len(plReq.Steps) /\ ~result[t].Err) =>
      LET N == Len(plReq.Steps)
      IN  /\ plStatus = 200
          /\ plResult.Success
          /\ plResult.TotalSteps = N
          /\ Len(plResult.Steps) = N
          /\ plReq.PipelineID # "" => plResult.PipelineID = plReq.PipelineID
          /\ \A k \in 0..(N - 1) :
               LET prev == IF k = 0 THEN plReq.InitialInput ELSE plResult.Steps[k].Content
               IN  /\ plResult.Steps[k + 1].StepIndex = k
                   /\ plResult.Steps[k + 1].Success
                   /\ plResult.Steps[k + 1].TaskID = <<plResult.PipelineID, "_step_", ToString(k)>>
                   /\ taskReqs[k + 1].TaskID = <<plResult.PipelineID, "_step_", ToString(k)>>
                   /\ taskReqs[k + 1].Type = plReq.Steps[k + 1].Type
                   /\ taskReqs[k + 1].Prompt =
                        ExpectedPrompt(plReq.Steps[k + 1].PromptTemplate, prev,
                                       plReq.InitialInput, k)
          /\ plResult.FinalOutput = plResult.Steps[N].Content

\* A two-step pipeline with a client-supplied id succeeded; its second step
\* has no template and was sent the content of the first, which differs from
\* the initial input and from the final output.
C17_Witness ==
  /\ plPc = "done"
  /\ plStatus = 200
  /\ plReq.PipelineID # ""
  /\ Len(plResult.Steps) = 2
  /\ plReq.Steps[2].PromptTemplate = <<>>
  /\ taskReqs[2].Prompt = plResult.Steps[1].Content
  /\ plResult.Steps[1].Content # plReq.InitialInput
  /\ plResult.Steps[1].Content # plResult.FinalOutput
  /\ plResult.Steps[1].Content # <<>>

\* The number of events of a type given to the hub so far.
EventCount(type) == Cardinality({k \in 1..Len(events) : events[k].Type = type})

\* C18: a pipeline that is executed (N >= 1 steps) has emitted exactly one
\* pipeline_started event when its first step is routed, and when it has
\* returned, also after a failed step, exactly one pipeline_started followed
\* by exactly one pipeline_done.
C18_PipelineEventsEmitted ==
  /\ plPc = "step" => EventCount("pipeline_started") = 1
  /\ (plPc = "done" /\ plStatus # 400) =>
       /\ EventCount("pipeline_started") = 1
       /\ EventCount("pipeline_done") = 1
       /\ events[1].Type = "pipeline_started"
       /\ events[Len(events)].Type = "pipeline_done"

\* ---------------------------------------------------------------------
\* Properties of the streaming path (checked under SpecStream)
\* ---------------------------------------------------------------------
\* C19: a streaming task selects at most one worker and is dispatched to no
\* other; when no worker is available it is answered 503 and no load was
\* changed; otherwise, when the handler has returned (done chunk, end or
\* failure of the worker's stream, client disconnected, writer unable to
\* flush), the load increment on the selected worker was released exactly once.
C19_StreamSelectsOnceReleasesOnce ==
  /\ Len(stHist.Selected) <= 1
  /\ Len(stHist.Dispatched) <= 1
  /\ \A k \in 1..Len(stHist.Dispatched) : stHist.Dispatched[k] = stHist.Selected[1]
  /\ stHist.Incs <= 1
  /\ stHist.Decs <= stHist.Incs
  /\ stPc = "done" =>
       IF stExit = "no_node"
         THEN /\ stStatus = 503
              /\ stHist.Incs = 0 /\ stHist.Decs = 0
              /\ \A w \in DOMAIN nodes : nodes[w].ActiveTasks = 0
         ELSE /\ stHist.Incs = 1 /\ stHist.Decs = 1
              /\ nodes[stNode].ActiveTasks = 0

\* The worker's stream failed after a chunk had reached the client; the other
\* worker was idle, and alive, all along and was never selected.
C19_Witness ==
  /\ stPc = "done"
  /\ stExit = "error"
  /\ Len(delivered) >= 1
  /\ stHist.Decs = 1
  /\ \E w \in DOMAIN nodes \ {stNode} : nodes[w].Status = StatusIdle /\ isAlive(nodes[w], now)

\* The chunks among the lines the agent has written.
EmittedChunks == SelectSeq(stWritten, LAMBDA l : l.Kind = "chunk")

\* C20: the chunks delivered to the client are, token and done flag, a prefix
\* of the chunks the worker has written, in the same order; every delivered
\* chunk has routed_to = the selected worker; a delivered chunk has a
\* latency_ms only if it is a done chunk; and only the last delivered chunk
\* can be a done chunk.
C20_DeliveredIsPrefixOfEmitted ==
  /\ Len(delivered) <= Len(EmittedChunks)
  /\ \A k \in 1..Len(delivered) :
       /\ delivered[k].Token = EmittedChunks[k].Token
       /\ delivered[k].Done = EmittedChunks[k].Done
       /\ delivered[k].RoutedTo = stNode
       /\ delivered[k].LatencyMs # 0 => delivered[k].Done
       /\ delivered[k].Done => k = Len(delivered)

\* A stream of two tokens and a done chunk, with a line that is no chunk in
\* between, was delivered in order and stamped with a latency at the end.
C20_Witness ==
  /\ stPc = "done"
  /\ stExit = "done_chunk"
  /\ Len(delivered) = 2
  /\ Len(stWritten) = 3
  /\ delivered[1].Token = "b"
  /\ delivered[2].LatencyMs # 0

\* ---------------------------------------------------------------------
\* C24 (SpecFindBest): worker selection is deterministic: for the registry
\* and the arguments of a findBest call, every iteration order of the map
\* gives the node the call returned, also when candidates of the winning
\* tier tie on ActiveTasks.
\* ---------------------------------------------------------------------
C24_SelectionIndependentOfOrder ==
  fbCall # NoCall =>
    \A o \in Orders(DOMAIN nodes) :
      findBest(nodes, now, o, fbCall.Type, fbCall.ModelHint, fbCall.Exclude) = fbCall.Node

\* ---------------------------------------------------------------------
\* C29 (Spec): in the failover loop the load of a failed worker is released
\* before the retry: whenever routeWithFailover is about to run
\* FindBestNodeExcluding, the task holds a load increment on no worker.
\* ---------------------------------------------------------------------
C29_LoadReleasedBeforeRetry ==
  \A t \in Tasks : pc[t] = "select" => held[t] = <<>>

\* ---------------------------------------------------------------------
\* C30 (Spec): a TaskResult is returned with success = true only if the
\* worker named in routed_to answered the task with success = true.
\* ---------------------------------------------------------------------
C30_SuccessOnlyIfWorkerSucceeded ==
  \A t \in Tasks :
    (pc[t] = "done" /\ ~result[t].Err /\ result[t].Success) =>
      (answer[t] = "ok" /\ result[t].RoutedTo = cur[t])

\* ---------------------------------------------------------------------
\* Properties of the event hub
\* ---------------------------------------------------------------------
IsLive(e) == e.Type = "task_routed"

\* The clients the Broadcast loop visits in a step.
Visited == IF bcast.Active /\ bcast' # bcast THEN bcast.Left \ bcast'.Left ELSE {}

\* C21 (SpecHub): Broadcast never blocks on a subscriber: the loop can visit
\* every client it has still to visit whatever the channels hold; the visit
\* enqueues the event when the client's channel holds fewer than SendCap
\* messages and otherwise drops it for that client only; no other client's
\* channel changes in the visit.
C21_BroadcastNeverBlocks ==
  /\ [](bcast.Active => \A c \in bcast.Left : ENABLED BroadcastVisit(c))
  /\ [][ \A c \in Visited :
           /\ send'[c] = IF Len(send[c]) < SendCap
                           THEN Append(send[c], bcast.Event)
                           ELSE send[c]
           /\ \A d \in Clients \ {c} : send'[d] = send[d] ]_vars

\* A Broadcast has returned that found the channel of c1 full and dropped the
\* event for c1, while c2 got it.
C21_Witness ==
  /\ ~bcast.Active
  /\ nEvents >= 1
  /\ Len(send["c1"]) = SendCap
  /\ \A i \in 1..SendCap : send["c1"][i] # LiveEvent(1)
  /\ \E i \in 1..Len(send["c2"]) : send["c2"][i] = LiveEvent(1)

\* C22 (SpecHub): within one subscriber the events are delivered in broadcast
\* order: in what its writer has written followed by what its channel still
\* holds, the live events appear in the order of their Broadcast calls; and
\* the writer writes the messages in the order they were enqueued (a write
\* moves the oldest message of the channel to the end of the written ones).
C22_DeliveredInBroadcastOrder ==
  /\ [](\A c \in Clients :
          LET live == SelectSeq(sent[c] \o send[c], IsLive)
          IN  \A i \in 1..(Len(live) - 1) : live[i].Seq < live[i + 1].Seq)
  /\ [][ \A c \in Clients :
           sent'[c] # sent[c] =>
             /\ sent'[c] \o send'[c] = sent[c] \o send[c]
             /\ Len(sent'[c]) = Len(sent[c]) + 1 ]_vars

\* The writer of c2 has written the first broadcast event and, after it, the second.
C22_Witness ==
  \E i, j \in 1..Len(sent["c2"]) :
    /\ i < j
    /\ sent["c2"][i] = LiveEvent(1)
    /\ sent["c2"][j] = LiveEvent(2)

\* C23 (SpecReplay): when the pumps of a new subscriber start, its channel
\* holds exactly one node_registered event for every worker of the registry,
\* followed by one stats event, and no live event: nothing of the replay was
\* dropped, whatever the number of workers.
C23_ReplayCompleteAndFirst ==
  \A c \in Clients :
    atStart[c] # NotStarted =>
      /\ Len(atStart[c]) = Cardinality(DOMAIN nodes) + 1
      /\ atStart[c][Len(atStart[c])] = StatsEvent
      /\ \A id \in DOMAIN nodes :
           Cardinality({i \in 1..Len(atStart[c]) : atStart[c][i] = NodeRegisteredEvent(id)}) = 1
      /\ \A i \in 1..Len(atStart[c]) : ~IsLive(atStart[c][i])

\* ---------------------------------------------------------------------
\* C25 (SpecSnapshot): the list AllNodes returned is the registry as it was
\* after some prefix of the completed mutations, a prefix that contains every
\* mutation completed before the call (no row mixes fields from before and
\* after a mutation); and no later step changes a list already returned.
\* ---------------------------------------------------------------------
C25_SnapshotAtomicCopy ==
  /\ [](snPc = "returned" =>
          \E k \in 1..Len(committed) : k >= snFrom /\ snapshot = AllNodes(committed[k]))
  /\ [][snPc = "returned" => snapshot' = snapshot]_vars

\* AllNodes was called after a mutation, returned rows, and a mutation
\* completed since has changed the registry but not the list.
C25_Witness ==
  /\ snPc = "returned"
  /\ snFrom >= 2
  /\ snapshot # {}
  /\ Len(committed) > snFrom
  /\ wrPc = NoWriter
  /\ snapshot # AllNodes(nodes)

\* ---------------------------------------------------------------------
\* C26 (SpecValidate): a POST /task with an empty prompt, a POST /register
\* with an empty node_id and a POST /pipeline without steps or without
\* initial_input are answered 400 and have no effect: the registry, the
\* load counts, the routing state and the dispatched steps stay as they were.
\* ---------------------------------------------------------------------
Rejectable(e) ==
  \/ e.Endpoint = "task" /\ e.Prompt = ""
  \/ e.Endpoint = "register" /\ e.NodeID = ""

C26_InvalidRequestsRejected ==
  [][ /\ \A e \in httpLog' \ httpLog :
           Rejectable(e) =>
             /\ e.Code = 400
             /\ UNCHANGED <<nodes, taskVars, loadDelta, regVars, pipeVars>>
      /\ (plPc = "idle" /\ plPc' # "idle"
            /\ (Len(plReq'.Steps) = 0 \/ plReq'.InitialInput = <<>>))
          => /\ plStatus' = 400
             /\ plPc' = "done"
             /\ UNCHANGED <<nodes, taskVars, loadDelta, regVars, taskReqs, results, plResult>>
    ]_vars

\* With a worker registered, a task without prompt, a registration without
\* node_id and a pipeline without steps have each been answered 400.
C26_Witness ==
  /\ nodes # <<>>
  /\ \E e \in httpLog : e.Endpoint = "task" /\ e.Prompt = "" /\ e.Code = 400
  /\ \E e \in httpLog : e.Endpoint = "register" /\ e.NodeID = "" /\ e.Code = 400
  /\ plStatus = 400
  /\ plReq.Steps = <<>>

\* ---------------------------------------------------------------------
\* C27 (SpecAgentFair): an agent whose heartbeat was answered 404 registers
\* again: eventually its row exists and a heartbeat of it is accepted.
\* ---------------------------------------------------------------------
C27_UnknownAgentReRegisters ==
  \A w \in Ids :
    (hbCode[w].Last = 404) ~> (w \in DOMAIN nodes /\ hbCode[w].Last = 200)

\* After a restart of the orchestrator node-a got a 404, and its latest
\* heartbeat has been accepted for its new row.
C27_Witness ==
  /\ restarts >= 1
  /\ hbCode["node-a"].Seen404
  /\ hbCode["node-a"].Last = 200
  /\ "node-a" \in DOMAIN nodes
  /\ agPc["node-a"] = "beat"

\* ---------------------------------------------------------------------
\* Properties of resolveTemplate (checked under SpecTemplate)
\* ---------------------------------------------------------------------
Placeholders == {PrevOutputVar, InitialInputVar, StepIndexVar}

\* The positions of s where a placeholder starts.
Occurrences(s) == { i \in 1..Len(s) : \E p \in Placeholders : HasPrefix(SubSeq(s, i, Len(s)), p) }

\* The binding of the placeholder that starts at position i of s.
BindingAt(s, i, call) ==
  IF HasPrefix(SubSeq(s, i, Len(s)), PrevOutputVar) THEN call.Prev
  ELSE IF HasPrefix(SubSeq(s, i, Len(s)), InitialInputVar) THEN call.InitialInput
  ELSE <<ToString(call.StepIndex)>>

\* The expansion is one literal pass: a template without placeholder is
\* returned as it is (the empty one gives prev_output); otherwise the text
\* before the first placeholder is kept, the placeholder gives its binding
\* as it is, and what follows is the expansion of the rest of the template.
SinglePass ==
  Len(tmplOuts) >= 1 =>
    LET t == tmplIn.Template
        o == Occurrences(t)
    IN  IF t = <<>> THEN tmplOuts[1] = tmplIn.Prev
        ELSE IF o = {} THEN tmplOuts[1] = t
        ELSE LET i == CHOOSE j \in o : \A k \in o : j <= k
             IN  tmplOuts[1] =
                   SubSeq(t, 1, i - 1) \o BindingAt(t, i, tmplIn)
                     \o Replace(SubSeq(t, i + 3, Len(t)), tmplIn.Prev, tmplIn.InitialInput,
                                tmplIn.StepIndex)

\* C28 as stated: the expansion is one literal pass, and expanding the
\* expanded prompt again, when prev_output and initial_input contain no
\* placeholder, returns the same string.
C28_IdempotentIfBindingsPlain ==
  /\ SinglePass
  /\ (Len(tmplOuts) = 2 /\ Occurrences(tmplIn.Prev) = {} /\ Occurrences(tmplIn.InitialInput) = {})
       => tmplOuts[2] = tmplOuts[1]

\* C28 (SpecTemplate): the expansion is one literal pass, and expanding the
\* expanded prompt again returns the same string when the expanded prompt
\* itself contains no placeholder (plain bindings are not enough: a
\* placeholder can come about where template text and a binding meet).
C28_IdempotentIfExpansionPlain ==
  /\ SinglePass
  /\ (Len(tmplOuts) = 2 /\ Occurrences(tmplOuts[1]) = {}) => tmplOuts[2] = tmplOuts[1]

\* A template with placeholders was expanded to a prompt that differs from
\* it and contains no placeholder, although a binding of the call contains
\* the beginning of one, and the prompt was expanded again.
C28_Witness ==
  /\ Len(tmplOuts) = 2
  /\ Occurrences(tmplIn.Template) # {}
  /\ tmplIn.Prev = <<"{{", "prev_output">>
  /\ Occurrences(tmplOuts[1]) = {}
  /\ tmplOuts[1] # tmplIn.Template
  /\ tmplOuts[2] = tmplOuts[1]

\* ---------------------------------------------------------------------
\* Properties of the failover loop (checked under Spec)
\* ---------------------------------------------------------------------
\* While routeWithFailover has not started to return, held lists the workers
\* it has incremented the load of, one per forward attempt, oldest first.
Routing(t) == pc[t] \in {"select", "inc", "forward", "suspect"}

Attempted(t) == {held[t][i] : i \in 1..Len(held[t])}

NoCandidateFor(t) ==
  \A o \in Orders(DOMAIN nodes) :
    findBest(nodes, now, o, req[t].Type, req[t].ModelHint, tried[t]) = NoNode

\* C31: the failover loop is bounded: no worker is attempted twice by a task,
\* the attempts are at most as many as the registered workers, each failed
\* forward puts a worker into the exclusion set that was not in it, a
\* selection picks a worker not attempted before, and a selection that finds
\* no candidate ends the task with the error answered as 503, without
\* another attempt.
C31_FailoverBounded ==
  /\ [](\A t \in Tasks :
          Routing(t) =>
            /\ \A i, j \in 1..Len(held[t]) : i # j => held[t][i] # held[t][j]
            /\ Len(held[t]) <= Cardinality(DOMAIN nodes)
            /\ tried[t] \subseteq Attempted(t))
  /\ [][\A t \in Tasks :
          /\ (pc[t] = "forward" /\ pc'[t] = "suspect") =>
               /\ cur[t] \notin tried[t]
               /\ tried'[t] = tried[t] \cup {cur[t]}
          /\ (pc[t] = "select" /\ pc'[t] # "select") =>
               IF NoCandidateFor(t)
                 THEN /\ pc'[t] \in {"done", "unwind"}
                      /\ result'[t].Err /\ HttpStatus(t)' = 503
                      /\ held'[t] = held[t]
                 ELSE /\ pc'[t] = "inc"
                      /\ cur'[t] \in DOMAIN nodes \ Attempted(t)]_taskVars

\* Both registered workers failed the task, one attempt each, and the task
\* returned the error.
C31_Witness ==
  \E t \in Tasks :
    /\ pc[t] = "done"
    /\ result[t].Err
    /\ DOMAIN nodes = Ids
    /\ failed[t] = Ids
    /\ tried[t] = Ids

\* ---------------------------------------------------------------------
\* C32 (SpecForward): every forward for a node goes to the host and port the
\* node's agent was started with and registered, and is executed by that
\* agent and by no other.
\* ---------------------------------------------------------------------
C32_ForwardReachesDeclaredWorker ==
  \A f \in fwdLog :
    /\ Resolve(f.Host) = agentCfg[f.Node].AgentHost
    /\ f.Port = agentCfg[f.Node].AgentPort
    /\ f.ExecutedBy = f.Node

\* ---------------------------------------------------------------------
\* C33 (SpecRegistry): increment_load sets the status to busy when the
\* resulting active_tasks is at least 5 and leaves the status as it was
\* below 5; decrement_load sets a busy row to idle when the resulting
\* active_tasks is below 5.
\* ---------------------------------------------------------------------
C33_BusyThreshold ==
  [][ /\ OpStep("increment_load") =>
           LET id == lastOp'.NodeID
           IN  /\ nodes'[id].ActiveTasks = nodes[id].ActiveTasks + 1
               /\ nodes'[id].ActiveTasks >= BusyThreshold => nodes'[id].Status = StatusBusy
               /\ nodes'[id].ActiveTasks < BusyThreshold => nodes'[id].Status = nodes[id].Status
      /\ OpStep("decrement_load") =>
           LET id == lastOp'.NodeID
           IN  (nodes'[id].ActiveTasks < BusyThreshold /\ nodes[id].Status = StatusBusy)
                 => nodes'[id].Status = StatusIdle ]_vars

\* An increment_load has just brought an idle row with four tasks to five
\* and made it busy.
C33_Witness ==
  /\ lastOp.Name = "increment_load"
  /\ \E h \in Handlers : pending[h] = lastOp.NodeID
  /\ nodes[lastOp.NodeID].ActiveTasks = BusyThreshold
  /\ nodes[lastOp.NodeID].Status = StatusBusy

\* ---------------------------------------------------------------------
\* C34 (SpecPipelineCancel): for a step of a pipeline whose predecessor's
\* routing returned after the pipeline's context was done, no worker is
\* selected, none has its load incremented, none is forwarded to and none is
\* marked suspect.
\* ---------------------------------------------------------------------
C34_NoStepAfterCancel ==
  \A t \in Tasks :
    (plCancelAt # << >> /\ Len(taskReqs) >= plCancelAt[1] + 2) =>
      /\ cur[t] = NoNode
      /\ held[t] = << >>
      /\ \A w \in Ids : loadDelta[t][w] = 0
      /\ answer[t] = "none"
      /\ suspected[t] = {}

\* ---------------------------------------------------------------------
\* Properties of the load accounting (checked under SpecLoad)
\* ---------------------------------------------------------------------
\* How many attempts of request h hold a load increment on worker w.
HeldBy(h, w) == Cardinality({i \in 1..Len(ldHeld[h]) : ldHeld[h][i] = w})

RECURSIVE HeldAmong(_, _)
HeldAmong(hs, w) ==
  IF hs = {} THEN 0
  ELSE LET h == CHOOSE x \in hs : TRUE IN HeldBy(h, w) + HeldAmong(hs \ {h}, w)

HeldOn(w) == HeldAmong(LoadRequests, w)

\* C35: as long as no heartbeat has arrived and no worker has registered
\* again, every row of a snapshot of the registry shows as active_tasks the
\* number of attempts (unary, pipeline step, streaming) that have incremented
\* the worker's load and not released it yet.
C35_ActiveTasksCountsHeld ==
  touched = {} =>
    \A s \in AllNodes(nodes) : s.Info.ActiveTasks = HeldOn(s.NodeID)

\* A single task is being forwarded, to node-a; no other request runs, and
\* the registry shows one active task on node-a and none on node-b.
C35_Witness ==
  /\ touched = {}
  /\ ldPc = [h \in LoadRequests |-> IF h = "unary" THEN "forward" ELSE "idle"]
  /\ ldCur["unary"] = "node-a"
  /\ DOMAIN nodes = Ids
  /\ nodes["node-a"].ActiveTasks = 1
  /\ nodes["node-b"].ActiveTasks = 0

\* How many attempts of request h hold an increment on w made after the
\* latest registration of w.
FreshBy(h, w) ==
  Cardinality({i \in 1..Len(ldHeld[h]) : ldHeld[h][i] = w /\ i \notin ldOld[h]})

RECURSIVE FreshAmong(_, _)
FreshAmong(hs, w) ==
  IF hs = {} THEN 0
  ELSE LET h == CHOOSE x \in hs : TRUE IN FreshBy(h, w) + FreshAmong(hs \ {h}, w)

\* C37: in runs without heartbeats the active_tasks of every worker is at
\* least the number of attempts in flight on it whose load increment
\* was made after the worker's latest registration.
C37_FreshAttemptsStayCounted ==
  \A w \in DOMAIN nodes : nodes[w].ActiveTasks >= FreshAmong(LoadRequests, w)

\* The step gave exactly one event of this type about node id to hub.Broadcast.
EmittedOne(type, id) ==
  /\ Len(events') = Len(events) + 1
  /\ SubSeq(events', 1, Len(events)) = events
  /\ events'[Len(events')].Type = type
  /\ events'[Len(events')].NodeID = id

\* C36: every accepted register request broadcasts exactly one
\* node_registered event for its worker; an accepted heartbeat broadcasts one
\* node_status event if it changed the row's status or active_tasks and
\* nothing otherwise.
C36_NodeEventsEmitted ==
  [][ /\ OpStep("register") => EmittedOne("node_registered", lastOp'.NodeID)
      /\ (OpStep("heartbeat") /\ lastOp'.Code = 200) =>
           LET id == lastOp'.NodeID
           IN  IF nodes'[id].Status # nodes[id].Status
                    \/ nodes'[id].ActiveTasks # nodes[id].ActiveTasks
                 THEN EmittedOne("node_status", id)
                 ELSE events' = events ]_vars

\* ---------------------------------------------------------------------
\* Properties of the hub with concurrent callers (checked under SpecHubConc)
\* ---------------------------------------------------------------------
\* C38: whatever the interleaving of Broadcast, connection (register and
\* initial replay), the end of readPump and unregister, no send statement
\* runs on a closed send channel, and the channel of a connection is closed
\* at most once however often unregister is called for it.
C38_NoSendAfterClose ==
  /\ hcOnClosed = {}
  /\ \A c \in Clients : hcClosed[c] <= 1

\* unregister was called twice for a connection, whose channel is closed,
\* after a Broadcast that had the connection in its loop.
C38_Witness ==
  \E c \in Clients :
    /\ hcCalls[c] = 2
    /\ hcClosed[c] = 1
    /\ \E k \in 1..Len(hcSent[c]) : hcSent[c][k].Type = "task_routed"
    /\ \E b \in Broadcasters : hcB[b].Pc = "loop"

\* The position of message m in what writePump wrote to connection c (0: not
\* written).
WrittenAt(c, m) ==
  IF \E k \in 1..Len(hcSent[c]) : hcSent[c][k] = m
    THEN CHOOSE k \in 1..Len(hcSent[c]) : hcSent[c][k] = m
    ELSE 0

\* C39: two dashboards that both received the events of two concurrent
\* Broadcast calls received them in the same relative order.
C39_SameOrderEverywhere ==
  \A c1, c2 \in Clients :
    (\A c \in {c1, c2} : \A b \in Broadcasters : WrittenAt(c, EventOf(b)) > 0)
      => (WrittenAt(c1, EventOf("b1")) < WrittenAt(c1, EventOf("b2"))
            <=> WrittenAt(c2, EventOf("b1")) < WrittenAt(c2, EventOf("b2")))

====
